---- MODULE Spec2Model ----
(***************************************************************************)
(* Task-Planner: the slot-scoring and schedule-formatting core of          *)
(* SimpleScheduler (src/src/schedule_ai.py) and its caller create_schedule *)
(* (src/app.py).                                                           *)
(*                                                                         *)
(* Representation.  A Python str is the sequence of the code points of its *)
(* characters (ord of each: "9am" is <<57, 97, 109>>), so that split,       *)
(* strip, upper, lower, substring search and int() are computed for every  *)
(* character of Unicode and not assumed.  available_hours is a float with  *)
(* step 0.5 (the slider of app.py): it is carried as an integer number of  *)
(* half hours, ah2.                                                        *)
(* An int is a TLC integer: the numbers written in the texts of the model  *)
(* have at most nine digits.                                               *)
(* A score is an IEEE-754 double, computed with the hardware's rounding.   *)
(* A call that raises returns [exc |-> <exception class>, val |-> None].   *)
(***************************************************************************)
EXTENDS Integers, Sequences, FiniteSets, TLC

VARIABLES rf_model, scaler, feature_names, op, args, ret

vars == <<rf_model, scaler, feature_names, op, args, ret>>

None == "None"
NoExc == "no exception"

Ok(v) == [exc |-> NoExc, val |-> v]
Raise(e) == [exc |-> e, val |-> None]

\* an optional value: Python's None, or a value
Nothing == [none |-> TRUE, v |-> <<>>]
Some(x) == [none |-> FALSE, v |-> x]

(***************************************************************************)
(* Python str primitives.  A character is its code point.                  *)
(***************************************************************************)
\* str.isspace(c), also the class \s of re: Unicode 14 whitespace
Whitespace ==
    UNION {9..13, 28..32, 133..133, 160..160, 5760..5760,
           8192..8202, 8232..8233, 8239..8239, 8287..8287, 12288..12288}

\* the zero of every run of ten decimal digits (category Nd): the class
\* \d of re, and the digits int() reads
DecimalZeros ==
    {48, 1632, 1776, 1984, 2406, 2534, 2662, 2790, 2918, 3046, 3174, 3302,
     3430, 3558, 3664, 3792, 3872, 4160, 4240, 6112, 6160, 6470, 6608, 6784,
     6800, 6992, 7088, 7232, 7248, 42528, 43216, 43264, 43472, 43504, 43600,
     44016, 65296, 66720, 68912, 69734, 69872, 69942, 70096, 70384, 70736,
     70864, 71248, 71360, 71472, 71904, 72016, 72784, 73040, 73120, 92768,
     92864, 93008, 120782, 120792, 120802, 120812, 120822, 123200, 123632,
     125264, 130032}

\* str.upper() of one character above ASCII: rows <<first, last, step, offset>>
\* of the characters that map to one character
UpperRanges ==
    <<<<181, 181, 1, 743>>, <<224, 246, 1, -32>>, <<248, 254, 1, -32>>,
      <<255, 255, 1, 121>>, <<257, 303, 2, -1>>, <<305, 305, 1, -232>>,
      <<307, 311, 2, -1>>, <<314, 328, 2, -1>>, <<331, 375, 2, -1>>,
      <<378, 382, 2, -1>>, <<383, 383, 1, -300>>, <<384, 384, 1, 195>>,
      <<387, 389, 2, -1>>, <<392, 392, 1, -1>>, <<396, 396, 1, -1>>,
      <<402, 402, 1, -1>>, <<405, 405, 1, 97>>, <<409, 409, 1, -1>>,
      <<410, 410, 1, 163>>, <<414, 414, 1, 130>>, <<417, 421, 2, -1>>,
      <<424, 424, 1, -1>>, <<429, 429, 1, -1>>, <<432, 432, 1, -1>>,
      <<436, 438, 2, -1>>, <<441, 441, 1, -1>>, <<445, 445, 1, -1>>,
      <<447, 447, 1, 56>>, <<453, 453, 1, -1>>, <<454, 454, 1, -2>>,
      <<456, 456, 1, -1>>, <<457, 457, 1, -2>>, <<459, 459, 1, -1>>,
      <<460, 460, 1, -2>>, <<462, 476, 2, -1>>, <<477, 477, 1, -79>>,
      <<479, 495, 2, -1>>, <<498, 498, 1, -1>>, <<499, 499, 1, -2>>,
      <<501, 501, 1, -1>>, <<505, 543, 2, -1>>, <<547, 563, 2, -1>>,
      <<572, 572, 1, -1>>, <<575, 576, 1, 10815>>, <<578, 578, 1, -1>>,
      <<583, 591, 2, -1>>, <<592, 592, 1, 10783>>, <<593, 593, 1, 10780>>,
      <<594, 594, 1, 10782>>, <<595, 595, 1, -210>>, <<596, 596, 1, -206>>,
      <<598, 599, 1, -205>>, <<601, 601, 1, -202>>, <<603, 603, 1, -203>>,
      <<604, 604, 1, 42319>>, <<608, 608, 1, -205>>, <<609, 609, 1, 42315>>,
      <<611, 611, 1, -207>>, <<613, 613, 1, 42280>>, <<614, 614, 1, 42308>>,
      <<616, 616, 1, -209>>, <<617, 617, 1, -211>>, <<618, 618, 1, 42308>>,
      <<619, 619, 1, 10743>>, <<620, 620, 1, 42305>>, <<623, 623, 1, -211>>,
      <<625, 625, 1, 10749>>, <<626, 626, 1, -213>>, <<629, 629, 1, -214>>,
      <<637, 637, 1, 10727>>, <<640, 640, 1, -218>>, <<642, 642, 1, 42307>>,
      <<643, 643, 1, -218>>, <<647, 647, 1, 42282>>, <<648, 648, 1, -218>>,
      <<649, 649, 1, -69>>, <<650, 651, 1, -217>>, <<652, 652, 1, -71>>,
      <<658, 658, 1, -219>>, <<669, 669, 1, 42261>>, <<670, 670, 1, 42258>>,
      <<837, 837, 1, 84>>, <<881, 883, 2, -1>>, <<887, 887, 1, -1>>,
      <<891, 893, 1, 130>>, <<940, 940, 1, -38>>, <<941, 943, 1, -37>>,
      <<945, 961, 1, -32>>, <<962, 962, 1, -31>>, <<963, 971, 1, -32>>,
      <<972, 972, 1, -64>>, <<973, 974, 1, -63>>, <<976, 976, 1, -62>>,
      <<977, 977, 1, -57>>, <<981, 981, 1, -47>>, <<982, 982, 1, -54>>,
      <<983, 983, 1, -8>>, <<985, 1007, 2, -1>>, <<1008, 1008, 1, -86>>,
      <<1009, 1009, 1, -80>>, <<1010, 1010, 1, 7>>, <<1011, 1011, 1, -116>>,
      <<1013, 1013, 1, -96>>, <<1016, 1016, 1, -1>>, <<1019, 1019, 1, -1>>,
      <<1072, 1103, 1, -32>>, <<1104, 1119, 1, -80>>, <<1121, 1153, 2, -1>>,
      <<1163, 1215, 2, -1>>, <<1218, 1230, 2, -1>>, <<1231, 1231, 1, -15>>,
      <<1233, 1327, 2, -1>>, <<1377, 1414, 1, -48>>, <<4304, 4346, 1, 3008>>,
      <<4349, 4351, 1, 3008>>, <<5112, 5117, 1, -8>>, <<7296, 7296, 1, -6254>>,
      <<7297, 7297, 1, -6253>>, <<7298, 7298, 1, -6244>>,
      <<7299, 7300, 1, -6242>>, <<7301, 7301, 1, -6243>>,
      <<7302, 7302, 1, -6236>>, <<7303, 7303, 1, -6181>>,
      <<7304, 7304, 1, 35266>>, <<7545, 7545, 1, 35332>>,
      <<7549, 7549, 1, 3814>>, <<7566, 7566, 1, 35384>>, <<7681, 7829, 2, -1>>,
      <<7835, 7835, 1, -59>>, <<7841, 7935, 2, -1>>, <<7936, 7943, 1, 8>>,
      <<7952, 7957, 1, 8>>, <<7968, 7975, 1, 8>>, <<7984, 7991, 1, 8>>,
      <<8000, 8005, 1, 8>>, <<8017, 8023, 2, 8>>, <<8032, 8039, 1, 8>>,
      <<8048, 8049, 1, 74>>, <<8050, 8053, 1, 86>>, <<8054, 8055, 1, 100>>,
      <<8056, 8057, 1, 128>>, <<8058, 8059, 1, 112>>, <<8060, 8061, 1, 126>>,
      <<8112, 8113, 1, 8>>, <<8126, 8126, 1, -7205>>, <<8144, 8145, 1, 8>>,
      <<8160, 8161, 1, 8>>, <<8165, 8165, 1, 7>>, <<8526, 8526, 1, -28>>,
      <<8560, 8575, 1, -16>>, <<8580, 8580, 1, -1>>, <<9424, 9449, 1, -26>>,
      <<11312, 11359, 1, -48>>, <<11361, 11361, 1, -1>>,
      <<11365, 11365, 1, -10795>>, <<11366, 11366, 1, -10792>>,
      <<11368, 11372, 2, -1>>, <<11379, 11379, 1, -1>>, <<11382, 11382, 1, -1>>,
      <<11393, 11491, 2, -1>>, <<11500, 11502, 2, -1>>, <<11507, 11507, 1, -1>>,
      <<11520, 11557, 1, -7264>>, <<11559, 11559, 1, -7264>>,
      <<11565, 11565, 1, -7264>>, <<42561, 42605, 2, -1>>,
      <<42625, 42651, 2, -1>>, <<42787, 42799, 2, -1>>, <<42803, 42863, 2, -1>>,
      <<42874, 42876, 2, -1>>, <<42879, 42887, 2, -1>>, <<42892, 42892, 1, -1>>,
      <<42897, 42899, 2, -1>>, <<42900, 42900, 1, 48>>, <<42903, 42921, 2, -1>>,
      <<42933, 42947, 2, -1>>, <<42952, 42954, 2, -1>>, <<42961, 42961, 1, -1>>,
      <<42967, 42969, 2, -1>>, <<42998, 42998, 1, -1>>,
      <<43859, 43859, 1, -928>>, <<43888, 43967, 1, -38864>>,
      <<65345, 65370, 1, -32>>, <<66600, 66639, 1, -40>>,
      <<66776, 66811, 1, -40>>, <<66967, 66977, 1, -39>>,
      <<66979, 66993, 1, -39>>, <<66995, 67001, 1, -39>>,
      <<67003, 67004, 1, -39>>, <<68800, 68850, 1, -64>>,
      <<71872, 71903, 1, -32>>, <<93792, 93823, 1, -32>>,
      <<125218, 125251, 1, -34>>>>

\* str.upper(): the characters that map to several
UpperSpecial ==
    <<<<223, <<83, 83>>>>, <<329, <<700, 78>>>>, <<496, <<74, 780>>>>,
      <<912, <<921, 776, 769>>>>, <<944, <<933, 776, 769>>>>,
      <<1415, <<1333, 1362>>>>, <<7830, <<72, 817>>>>, <<7831, <<84, 776>>>>,
      <<7832, <<87, 778>>>>, <<7833, <<89, 778>>>>, <<7834, <<65, 702>>>>,
      <<8016, <<933, 787>>>>, <<8018, <<933, 787, 768>>>>,
      <<8020, <<933, 787, 769>>>>, <<8022, <<933, 787, 834>>>>,
      <<8064, <<7944, 921>>>>, <<8065, <<7945, 921>>>>, <<8066, <<7946, 921>>>>,
      <<8067, <<7947, 921>>>>, <<8068, <<7948, 921>>>>, <<8069, <<7949, 921>>>>,
      <<8070, <<7950, 921>>>>, <<8071, <<7951, 921>>>>, <<8072, <<7944, 921>>>>,
      <<8073, <<7945, 921>>>>, <<8074, <<7946, 921>>>>, <<8075, <<7947, 921>>>>,
      <<8076, <<7948, 921>>>>, <<8077, <<7949, 921>>>>, <<8078, <<7950, 921>>>>,
      <<8079, <<7951, 921>>>>, <<8080, <<7976, 921>>>>, <<8081, <<7977, 921>>>>,
      <<8082, <<7978, 921>>>>, <<8083, <<7979, 921>>>>, <<8084, <<7980, 921>>>>,
      <<8085, <<7981, 921>>>>, <<8086, <<7982, 921>>>>, <<8087, <<7983, 921>>>>,
      <<8088, <<7976, 921>>>>, <<8089, <<7977, 921>>>>, <<8090, <<7978, 921>>>>,
      <<8091, <<7979, 921>>>>, <<8092, <<7980, 921>>>>, <<8093, <<7981, 921>>>>,
      <<8094, <<7982, 921>>>>, <<8095, <<7983, 921>>>>, <<8096, <<8040, 921>>>>,
      <<8097, <<8041, 921>>>>, <<8098, <<8042, 921>>>>, <<8099, <<8043, 921>>>>,
      <<8100, <<8044, 921>>>>, <<8101, <<8045, 921>>>>, <<8102, <<8046, 921>>>>,
      <<8103, <<8047, 921>>>>, <<8104, <<8040, 921>>>>, <<8105, <<8041, 921>>>>,
      <<8106, <<8042, 921>>>>, <<8107, <<8043, 921>>>>, <<8108, <<8044, 921>>>>,
      <<8109, <<8045, 921>>>>, <<8110, <<8046, 921>>>>, <<8111, <<8047, 921>>>>,
      <<8114, <<8122, 921>>>>, <<8115, <<913, 921>>>>, <<8116, <<902, 921>>>>,
      <<8118, <<913, 834>>>>, <<8119, <<913, 834, 921>>>>,
      <<8124, <<913, 921>>>>, <<8130, <<8138, 921>>>>, <<8131, <<919, 921>>>>,
      <<8132, <<905, 921>>>>, <<8134, <<919, 834>>>>,
      <<8135, <<919, 834, 921>>>>, <<8140, <<919, 921>>>>,
      <<8146, <<921, 776, 768>>>>, <<8147, <<921, 776, 769>>>>,
      <<8150, <<921, 834>>>>, <<8151, <<921, 776, 834>>>>,
      <<8162, <<933, 776, 768>>>>, <<8163, <<933, 776, 769>>>>,
      <<8164, <<929, 787>>>>, <<8166, <<933, 834>>>>,
      <<8167, <<933, 776, 834>>>>, <<8178, <<8186, 921>>>>,
      <<8179, <<937, 921>>>>, <<8180, <<911, 921>>>>, <<8182, <<937, 834>>>>,
      <<8183, <<937, 834, 921>>>>, <<8188, <<937, 921>>>>,
      <<64256, <<70, 70>>>>, <<64257, <<70, 73>>>>, <<64258, <<70, 76>>>>,
      <<64259, <<70, 70, 73>>>>, <<64260, <<70, 70, 76>>>>,
      <<64261, <<83, 84>>>>, <<64262, <<83, 84>>>>, <<64275, <<1348, 1350>>>>,
      <<64276, <<1348, 1333>>>>, <<64277, <<1348, 1339>>>>,
      <<64278, <<1358, 1350>>>>, <<64279, <<1348, 1341>>>>>>

\* str.lower() of one character above ASCII: rows <<first, last, step, offset>>
\* of the characters that map to one character
LowerRanges ==
    <<<<192, 214, 1, 32>>, <<216, 222, 1, 32>>, <<256, 302, 2, 1>>,
      <<306, 310, 2, 1>>, <<313, 327, 2, 1>>, <<330, 374, 2, 1>>,
      <<376, 376, 1, -121>>, <<377, 381, 2, 1>>, <<385, 385, 1, 210>>,
      <<386, 388, 2, 1>>, <<390, 390, 1, 206>>, <<391, 391, 1, 1>>,
      <<393, 394, 1, 205>>, <<395, 395, 1, 1>>, <<398, 398, 1, 79>>,
      <<399, 399, 1, 202>>, <<400, 400, 1, 203>>, <<401, 401, 1, 1>>,
      <<403, 403, 1, 205>>, <<404, 404, 1, 207>>, <<406, 406, 1, 211>>,
      <<407, 407, 1, 209>>, <<408, 408, 1, 1>>, <<412, 412, 1, 211>>,
      <<413, 413, 1, 213>>, <<415, 415, 1, 214>>, <<416, 420, 2, 1>>,
      <<422, 422, 1, 218>>, <<423, 423, 1, 1>>, <<425, 425, 1, 218>>,
      <<428, 428, 1, 1>>, <<430, 430, 1, 218>>, <<431, 431, 1, 1>>,
      <<433, 434, 1, 217>>, <<435, 437, 2, 1>>, <<439, 439, 1, 219>>,
      <<440, 440, 1, 1>>, <<444, 444, 1, 1>>, <<452, 452, 1, 2>>,
      <<453, 453, 1, 1>>, <<455, 455, 1, 2>>, <<456, 456, 1, 1>>,
      <<458, 458, 1, 2>>, <<459, 475, 2, 1>>, <<478, 494, 2, 1>>,
      <<497, 497, 1, 2>>, <<498, 500, 2, 1>>, <<502, 502, 1, -97>>,
      <<503, 503, 1, -56>>, <<504, 542, 2, 1>>, <<544, 544, 1, -130>>,
      <<546, 562, 2, 1>>, <<570, 570, 1, 10795>>, <<571, 571, 1, 1>>,
      <<573, 573, 1, -163>>, <<574, 574, 1, 10792>>, <<577, 577, 1, 1>>,
      <<579, 579, 1, -195>>, <<580, 580, 1, 69>>, <<581, 581, 1, 71>>,
      <<582, 590, 2, 1>>, <<880, 882, 2, 1>>, <<886, 886, 1, 1>>,
      <<895, 895, 1, 116>>, <<902, 902, 1, 38>>, <<904, 906, 1, 37>>,
      <<908, 908, 1, 64>>, <<910, 911, 1, 63>>, <<913, 929, 1, 32>>,
      <<931, 939, 1, 32>>, <<975, 975, 1, 8>>, <<984, 1006, 2, 1>>,
      <<1012, 1012, 1, -60>>, <<1015, 1015, 1, 1>>, <<1017, 1017, 1, -7>>,
      <<1018, 1018, 1, 1>>, <<1021, 1023, 1, -130>>, <<1024, 1039, 1, 80>>,
      <<1040, 1071, 1, 32>>, <<1120, 1152, 2, 1>>, <<1162, 1214, 2, 1>>,
      <<1216, 1216, 1, 15>>, <<1217, 1229, 2, 1>>, <<1232, 1326, 2, 1>>,
      <<1329, 1366, 1, 48>>, <<4256, 4293, 1, 7264>>, <<4295, 4295, 1, 7264>>,
      <<4301, 4301, 1, 7264>>, <<5024, 5103, 1, 38864>>, <<5104, 5109, 1, 8>>,
      <<7312, 7354, 1, -3008>>, <<7357, 7359, 1, -3008>>, <<7680, 7828, 2, 1>>,
      <<7838, 7838, 1, -7615>>, <<7840, 7934, 2, 1>>, <<7944, 7951, 1, -8>>,
      <<7960, 7965, 1, -8>>, <<7976, 7983, 1, -8>>, <<7992, 7999, 1, -8>>,
      <<8008, 8013, 1, -8>>, <<8025, 8031, 2, -8>>, <<8040, 8047, 1, -8>>,
      <<8072, 8079, 1, -8>>, <<8088, 8095, 1, -8>>, <<8104, 8111, 1, -8>>,
      <<8120, 8121, 1, -8>>, <<8122, 8123, 1, -74>>, <<8124, 8124, 1, -9>>,
      <<8136, 8139, 1, -86>>, <<8140, 8140, 1, -9>>, <<8152, 8153, 1, -8>>,
      <<8154, 8155, 1, -100>>, <<8168, 8169, 1, -8>>, <<8170, 8171, 1, -112>>,
      <<8172, 8172, 1, -7>>, <<8184, 8185, 1, -128>>, <<8186, 8187, 1, -126>>,
      <<8188, 8188, 1, -9>>, <<8486, 8486, 1, -7517>>, <<8490, 8490, 1, -8383>>,
      <<8491, 8491, 1, -8262>>, <<8498, 8498, 1, 28>>, <<8544, 8559, 1, 16>>,
      <<8579, 8579, 1, 1>>, <<9398, 9423, 1, 26>>, <<11264, 11311, 1, 48>>,
      <<11360, 11360, 1, 1>>, <<11362, 11362, 1, -10743>>,
      <<11363, 11363, 1, -3814>>, <<11364, 11364, 1, -10727>>,
      <<11367, 11371, 2, 1>>, <<11373, 11373, 1, -10780>>,
      <<11374, 11374, 1, -10749>>, <<11375, 11375, 1, -10783>>,
      <<11376, 11376, 1, -10782>>, <<11378, 11378, 1, 1>>,
      <<11381, 11381, 1, 1>>, <<11390, 11391, 1, -10815>>,
      <<11392, 11490, 2, 1>>, <<11499, 11501, 2, 1>>, <<11506, 11506, 1, 1>>,
      <<42560, 42604, 2, 1>>, <<42624, 42650, 2, 1>>, <<42786, 42798, 2, 1>>,
      <<42802, 42862, 2, 1>>, <<42873, 42875, 2, 1>>,
      <<42877, 42877, 1, -35332>>, <<42878, 42886, 2, 1>>,
      <<42891, 42891, 1, 1>>, <<42893, 42893, 1, -42280>>,
      <<42896, 42898, 2, 1>>, <<42902, 42920, 2, 1>>,
      <<42922, 42922, 1, -42308>>, <<42923, 42923, 1, -42319>>,
      <<42924, 42924, 1, -42315>>, <<42925, 42925, 1, -42305>>,
      <<42926, 42926, 1, -42308>>, <<42928, 42928, 1, -42258>>,
      <<42929, 42929, 1, -42282>>, <<42930, 42930, 1, -42261>>,
      <<42931, 42931, 1, 928>>, <<42932, 42946, 2, 1>>,
      <<42948, 42948, 1, -48>>, <<42949, 42949, 1, -42307>>,
      <<42950, 42950, 1, -35384>>, <<42951, 42953, 2, 1>>,
      <<42960, 42960, 1, 1>>, <<42966, 42968, 2, 1>>, <<42997, 42997, 1, 1>>,
      <<65313, 65338, 1, 32>>, <<66560, 66599, 1, 40>>, <<66736, 66771, 1, 40>>,
      <<66928, 66938, 1, 39>>, <<66940, 66954, 1, 39>>, <<66956, 66962, 1, 39>>,
      <<66964, 66965, 1, 39>>, <<68736, 68786, 1, 64>>, <<71840, 71871, 1, 32>>,
      <<93760, 93791, 1, 32>>, <<125184, 125217, 1, 34>>>>

\* str.lower(): the characters that map to several
LowerSpecial ==
    <<<<304, <<105, 775>>>>>>

\* the first character of str.capitalize() of one character above ASCII: rows <<first, last, step, offset>>
\* of the characters that map to one character
TitleRanges ==
    <<<<181, 181, 1, 743>>, <<224, 246, 1, -32>>, <<248, 254, 1, -32>>,
      <<255, 255, 1, 121>>, <<257, 303, 2, -1>>, <<305, 305, 1, -232>>,
      <<307, 311, 2, -1>>, <<314, 328, 2, -1>>, <<331, 375, 2, -1>>,
      <<378, 382, 2, -1>>, <<383, 383, 1, -300>>, <<384, 384, 1, 195>>,
      <<387, 389, 2, -1>>, <<392, 392, 1, -1>>, <<396, 396, 1, -1>>,
      <<402, 402, 1, -1>>, <<405, 405, 1, 97>>, <<409, 409, 1, -1>>,
      <<410, 410, 1, 163>>, <<414, 414, 1, 130>>, <<417, 421, 2, -1>>,
      <<424, 424, 1, -1>>, <<429, 429, 1, -1>>, <<432, 432, 1, -1>>,
      <<436, 438, 2, -1>>, <<441, 441, 1, -1>>, <<445, 445, 1, -1>>,
      <<447, 447, 1, 56>>, <<452, 452, 1, 1>>, <<454, 454, 1, -1>>,
      <<455, 455, 1, 1>>, <<457, 457, 1, -1>>, <<458, 458, 1, 1>>,
      <<460, 476, 2, -1>>, <<477, 477, 1, -79>>, <<479, 495, 2, -1>>,
      <<497, 497, 1, 1>>, <<499, 501, 2, -1>>, <<505, 543, 2, -1>>,
      <<547, 563, 2, -1>>, <<572, 572, 1, -1>>, <<575, 576, 1, 10815>>,
      <<578, 578, 1, -1>>, <<583, 591, 2, -1>>, <<592, 592, 1, 10783>>,
      <<593, 593, 1, 10780>>, <<594, 594, 1, 10782>>, <<595, 595, 1, -210>>,
      <<596, 596, 1, -206>>, <<598, 599, 1, -205>>, <<601, 601, 1, -202>>,
      <<603, 603, 1, -203>>, <<604, 604, 1, 42319>>, <<608, 608, 1, -205>>,
      <<609, 609, 1, 42315>>, <<611, 611, 1, -207>>, <<613, 613, 1, 42280>>,
      <<614, 614, 1, 42308>>, <<616, 616, 1, -209>>, <<617, 617, 1, -211>>,
      <<618, 618, 1, 42308>>, <<619, 619, 1, 10743>>, <<620, 620, 1, 42305>>,
      <<623, 623, 1, -211>>, <<625, 625, 1, 10749>>, <<626, 626, 1, -213>>,
      <<629, 629, 1, -214>>, <<637, 637, 1, 10727>>, <<640, 640, 1, -218>>,
      <<642, 642, 1, 42307>>, <<643, 643, 1, -218>>, <<647, 647, 1, 42282>>,
      <<648, 648, 1, -218>>, <<649, 649, 1, -69>>, <<650, 651, 1, -217>>,
      <<652, 652, 1, -71>>, <<658, 658, 1, -219>>, <<669, 669, 1, 42261>>,
      <<670, 670, 1, 42258>>, <<837, 837, 1, 84>>, <<881, 883, 2, -1>>,
      <<887, 887, 1, -1>>, <<891, 893, 1, 130>>, <<940, 940, 1, -38>>,
      <<941, 943, 1, -37>>, <<945, 961, 1, -32>>, <<962, 962, 1, -31>>,
      <<963, 971, 1, -32>>, <<972, 972, 1, -64>>, <<973, 974, 1, -63>>,
      <<976, 976, 1, -62>>, <<977, 977, 1, -57>>, <<981, 981, 1, -47>>,
      <<982, 982, 1, -54>>, <<983, 983, 1, -8>>, <<985, 1007, 2, -1>>,
      <<1008, 1008, 1, -86>>, <<1009, 1009, 1, -80>>, <<1010, 1010, 1, 7>>,
      <<1011, 1011, 1, -116>>, <<1013, 1013, 1, -96>>, <<1016, 1016, 1, -1>>,
      <<1019, 1019, 1, -1>>, <<1072, 1103, 1, -32>>, <<1104, 1119, 1, -80>>,
      <<1121, 1153, 2, -1>>, <<1163, 1215, 2, -1>>, <<1218, 1230, 2, -1>>,
      <<1231, 1231, 1, -15>>, <<1233, 1327, 2, -1>>, <<1377, 1414, 1, -48>>,
      <<5112, 5117, 1, -8>>, <<7296, 7296, 1, -6254>>, <<7297, 7297, 1, -6253>>,
      <<7298, 7298, 1, -6244>>, <<7299, 7300, 1, -6242>>,
      <<7301, 7301, 1, -6243>>, <<7302, 7302, 1, -6236>>,
      <<7303, 7303, 1, -6181>>, <<7304, 7304, 1, 35266>>,
      <<7545, 7545, 1, 35332>>, <<7549, 7549, 1, 3814>>,
      <<7566, 7566, 1, 35384>>, <<7681, 7829, 2, -1>>, <<7835, 7835, 1, -59>>,
      <<7841, 7935, 2, -1>>, <<7936, 7943, 1, 8>>, <<7952, 7957, 1, 8>>,
      <<7968, 7975, 1, 8>>, <<7984, 7991, 1, 8>>, <<8000, 8005, 1, 8>>,
      <<8017, 8023, 2, 8>>, <<8032, 8039, 1, 8>>, <<8048, 8049, 1, 74>>,
      <<8050, 8053, 1, 86>>, <<8054, 8055, 1, 100>>, <<8056, 8057, 1, 128>>,
      <<8058, 8059, 1, 112>>, <<8060, 8061, 1, 126>>, <<8064, 8071, 1, 8>>,
      <<8080, 8087, 1, 8>>, <<8096, 8103, 1, 8>>, <<8112, 8113, 1, 8>>,
      <<8115, 8115, 1, 9>>, <<8126, 8126, 1, -7205>>, <<8131, 8131, 1, 9>>,
      <<8144, 8145, 1, 8>>, <<8160, 8161, 1, 8>>, <<8165, 8165, 1, 7>>,
      <<8179, 8179, 1, 9>>, <<8526, 8526, 1, -28>>, <<8560, 8575, 1, -16>>,
      <<8580, 8580, 1, -1>>, <<9424, 9449, 1, -26>>, <<11312, 11359, 1, -48>>,
      <<11361, 11361, 1, -1>>, <<11365, 11365, 1, -10795>>,
      <<11366, 11366, 1, -10792>>, <<11368, 11372, 2, -1>>,
      <<11379, 11379, 1, -1>>, <<11382, 11382, 1, -1>>, <<11393, 11491, 2, -1>>,
      <<11500, 11502, 2, -1>>, <<11507, 11507, 1, -1>>,
      <<11520, 11557, 1, -7264>>, <<11559, 11559, 1, -7264>>,
      <<11565, 11565, 1, -7264>>, <<42561, 42605, 2, -1>>,
      <<42625, 42651, 2, -1>>, <<42787, 42799, 2, -1>>, <<42803, 42863, 2, -1>>,
      <<42874, 42876, 2, -1>>, <<42879, 42887, 2, -1>>, <<42892, 42892, 1, -1>>,
      <<42897, 42899, 2, -1>>, <<42900, 42900, 1, 48>>, <<42903, 42921, 2, -1>>,
      <<42933, 42947, 2, -1>>, <<42952, 42954, 2, -1>>, <<42961, 42961, 1, -1>>,
      <<42967, 42969, 2, -1>>, <<42998, 42998, 1, -1>>,
      <<43859, 43859, 1, -928>>, <<43888, 43967, 1, -38864>>,
      <<65345, 65370, 1, -32>>, <<66600, 66639, 1, -40>>,
      <<66776, 66811, 1, -40>>, <<66967, 66977, 1, -39>>,
      <<66979, 66993, 1, -39>>, <<66995, 67001, 1, -39>>,
      <<67003, 67004, 1, -39>>, <<68800, 68850, 1, -64>>,
      <<71872, 71903, 1, -32>>, <<93792, 93823, 1, -32>>,
      <<125218, 125251, 1, -34>>>>

\* the first character of str.capitalize(): the characters that map to several
TitleSpecial ==
    <<<<223, <<83, 115>>>>, <<329, <<700, 78>>>>, <<496, <<74, 780>>>>,
      <<912, <<921, 776, 769>>>>, <<944, <<933, 776, 769>>>>,
      <<1415, <<1333, 1410>>>>, <<7830, <<72, 817>>>>, <<7831, <<84, 776>>>>,
      <<7832, <<87, 778>>>>, <<7833, <<89, 778>>>>, <<7834, <<65, 702>>>>,
      <<8016, <<933, 787>>>>, <<8018, <<933, 787, 768>>>>,
      <<8020, <<933, 787, 769>>>>, <<8022, <<933, 787, 834>>>>,
      <<8114, <<8122, 837>>>>, <<8116, <<902, 837>>>>, <<8118, <<913, 834>>>>,
      <<8119, <<913, 834, 837>>>>, <<8130, <<8138, 837>>>>,
      <<8132, <<905, 837>>>>, <<8134, <<919, 834>>>>,
      <<8135, <<919, 834, 837>>>>, <<8146, <<921, 776, 768>>>>,
      <<8147, <<921, 776, 769>>>>, <<8150, <<921, 834>>>>,
      <<8151, <<921, 776, 834>>>>, <<8162, <<933, 776, 768>>>>,
      <<8163, <<933, 776, 769>>>>, <<8164, <<929, 787>>>>,
      <<8166, <<933, 834>>>>, <<8167, <<933, 776, 834>>>>,
      <<8178, <<8186, 837>>>>, <<8180, <<911, 837>>>>, <<8182, <<937, 834>>>>,
      <<8183, <<937, 834, 837>>>>, <<64256, <<70, 102>>>>,
      <<64257, <<70, 105>>>>, <<64258, <<70, 108>>>>,
      <<64259, <<70, 102, 105>>>>, <<64260, <<70, 102, 108>>>>,
      <<64261, <<83, 116>>>>, <<64262, <<83, 116>>>>, <<64275, <<1348, 1398>>>>,
      <<64276, <<1348, 1381>>>>, <<64277, <<1348, 1387>>>>,
      <<64278, <<1358, 1398>>>>, <<64279, <<1348, 1389>>>>>>

\* the characters with the Unicode property Cased
CasedRanges ==
    <<<<65, 90>>, <<97, 122>>, <<170, 170>>, <<181, 181>>, <<186, 186>>,
      <<192, 214>>, <<216, 246>>, <<248, 442>>, <<444, 447>>, <<452, 659>>,
      <<661, 696>>, <<704, 705>>, <<736, 740>>, <<837, 837>>, <<880, 883>>,
      <<886, 887>>, <<890, 893>>, <<895, 895>>, <<902, 902>>, <<904, 906>>,
      <<908, 908>>, <<910, 929>>, <<931, 1013>>, <<1015, 1153>>, <<1162, 1327>>,
      <<1329, 1366>>, <<1376, 1416>>, <<4256, 4293>>, <<4295, 4295>>,
      <<4301, 4301>>, <<4304, 4346>>, <<4349, 4351>>, <<5024, 5109>>,
      <<5112, 5117>>, <<7296, 7304>>, <<7312, 7354>>, <<7357, 7359>>,
      <<7424, 7615>>, <<7680, 7957>>, <<7960, 7965>>, <<7968, 8005>>,
      <<8008, 8013>>, <<8016, 8023>>, <<8025, 8025>>, <<8027, 8027>>,
      <<8029, 8029>>, <<8031, 8061>>, <<8064, 8116>>, <<8118, 8124>>,
      <<8126, 8126>>, <<8130, 8132>>, <<8134, 8140>>, <<8144, 8147>>,
      <<8150, 8155>>, <<8160, 8172>>, <<8178, 8180>>, <<8182, 8188>>,
      <<8305, 8305>>, <<8319, 8319>>, <<8336, 8348>>, <<8450, 8450>>,
      <<8455, 8455>>, <<8458, 8467>>, <<8469, 8469>>, <<8473, 8477>>,
      <<8484, 8484>>, <<8486, 8486>>, <<8488, 8488>>, <<8490, 8493>>,
      <<8495, 8500>>, <<8505, 8505>>, <<8508, 8511>>, <<8517, 8521>>,
      <<8526, 8526>>, <<8544, 8575>>, <<8579, 8580>>, <<9398, 9449>>,
      <<11264, 11492>>, <<11499, 11502>>, <<11506, 11507>>, <<11520, 11557>>,
      <<11559, 11559>>, <<11565, 11565>>, <<42560, 42605>>, <<42624, 42653>>,
      <<42786, 42887>>, <<42891, 42894>>, <<42896, 42954>>, <<42960, 42961>>,
      <<42963, 42963>>, <<42965, 42969>>, <<42997, 42998>>, <<43000, 43002>>,
      <<43824, 43866>>, <<43868, 43880>>, <<43888, 43967>>, <<64256, 64262>>,
      <<64275, 64279>>, <<65313, 65338>>, <<65345, 65370>>, <<66560, 66639>>,
      <<66736, 66771>>, <<66776, 66811>>, <<66928, 66938>>, <<66940, 66954>>,
      <<66956, 66962>>, <<66964, 66965>>, <<66967, 66977>>, <<66979, 66993>>,
      <<66995, 67001>>, <<67003, 67004>>, <<67456, 67456>>, <<67459, 67461>>,
      <<67463, 67504>>, <<67506, 67514>>, <<68736, 68786>>, <<68800, 68850>>,
      <<71840, 71903>>, <<93760, 93823>>, <<119808, 119892>>,
      <<119894, 119964>>, <<119966, 119967>>, <<119970, 119970>>,
      <<119973, 119974>>, <<119977, 119980>>, <<119982, 119993>>,
      <<119995, 119995>>, <<119997, 120003>>, <<120005, 120069>>,
      <<120071, 120074>>, <<120077, 120084>>, <<120086, 120092>>,
      <<120094, 120121>>, <<120123, 120126>>, <<120128, 120132>>,
      <<120134, 120134>>, <<120138, 120144>>, <<120146, 120485>>,
      <<120488, 120512>>, <<120514, 120538>>, <<120540, 120570>>,
      <<120572, 120596>>, <<120598, 120628>>, <<120630, 120654>>,
      <<120656, 120686>>, <<120688, 120712>>, <<120714, 120744>>,
      <<120746, 120770>>, <<120772, 120779>>, <<122624, 122633>>,
      <<122635, 122654>>, <<125184, 125251>>, <<127280, 127305>>,
      <<127312, 127337>>, <<127344, 127369>>>>

\* the characters with the Unicode property Case_Ignorable
CaseIgnorableRanges ==
    <<<<39, 39>>, <<46, 46>>, <<58, 58>>, <<94, 94>>, <<96, 96>>, <<168, 168>>,
      <<173, 173>>, <<175, 175>>, <<180, 180>>, <<183, 184>>, <<688, 879>>,
      <<884, 885>>, <<890, 890>>, <<900, 901>>, <<903, 903>>, <<1155, 1161>>,
      <<1369, 1369>>, <<1375, 1375>>, <<1425, 1469>>, <<1471, 1471>>,
      <<1473, 1474>>, <<1476, 1477>>, <<1479, 1479>>, <<1524, 1524>>,
      <<1536, 1541>>, <<1552, 1562>>, <<1564, 1564>>, <<1600, 1600>>,
      <<1611, 1631>>, <<1648, 1648>>, <<1750, 1757>>, <<1759, 1768>>,
      <<1770, 1773>>, <<1807, 1807>>, <<1809, 1809>>, <<1840, 1866>>,
      <<1958, 1968>>, <<2027, 2037>>, <<2042, 2042>>, <<2045, 2045>>,
      <<2070, 2093>>, <<2137, 2139>>, <<2184, 2184>>, <<2192, 2193>>,
      <<2200, 2207>>, <<2249, 2306>>, <<2362, 2362>>, <<2364, 2364>>,
      <<2369, 2376>>, <<2381, 2381>>, <<2385, 2391>>, <<2402, 2403>>,
      <<2417, 2417>>, <<2433, 2433>>, <<2492, 2492>>, <<2497, 2500>>,
      <<2509, 2509>>, <<2530, 2531>>, <<2558, 2558>>, <<2561, 2562>>,
      <<2620, 2620>>, <<2625, 2626>>, <<2631, 2632>>, <<2635, 2637>>,
      <<2641, 2641>>, <<2672, 2673>>, <<2677, 2677>>, <<2689, 2690>>,
      <<2748, 2748>>, <<2753, 2757>>, <<2759, 2760>>, <<2765, 2765>>,
      <<2786, 2787>>, <<2810, 2815>>, <<2817, 2817>>, <<2876, 2876>>,
      <<2879, 2879>>, <<2881, 2884>>, <<2893, 2893>>, <<2901, 2902>>,
      <<2914, 2915>>, <<2946, 2946>>, <<3008, 3008>>, <<3021, 3021>>,
      <<3072, 3072>>, <<3076, 3076>>, <<3132, 3132>>, <<3134, 3136>>,
      <<3142, 3144>>, <<3146, 3149>>, <<3157, 3158>>, <<3170, 3171>>,
      <<3201, 3201>>, <<3260, 3260>>, <<3263, 3263>>, <<3270, 3270>>,
      <<3276, 3277>>, <<3298, 3299>>, <<3328, 3329>>, <<3387, 3388>>,
      <<3393, 3396>>, <<3405, 3405>>, <<3426, 3427>>, <<3457, 3457>>,
      <<3530, 3530>>, <<3538, 3540>>, <<3542, 3542>>, <<3633, 3633>>,
      <<3636, 3642>>, <<3654, 3662>>, <<3761, 3761>>, <<3764, 3772>>,
      <<3782, 3782>>, <<3784, 3789>>, <<3864, 3865>>, <<3893, 3893>>,
      <<3895, 3895>>, <<3897, 3897>>, <<3953, 3966>>, <<3968, 3972>>,
      <<3974, 3975>>, <<3981, 3991>>, <<3993, 4028>>, <<4038, 4038>>,
      <<4141, 4144>>, <<4146, 4151>>, <<4153, 4154>>, <<4157, 4158>>,
      <<4184, 4185>>, <<4190, 4192>>, <<4209, 4212>>, <<4226, 4226>>,
      <<4229, 4230>>, <<4237, 4237>>, <<4253, 4253>>, <<4348, 4348>>,
      <<4957, 4959>>, <<5906, 5908>>, <<5938, 5939>>, <<5970, 5971>>,
      <<6002, 6003>>, <<6068, 6069>>, <<6071, 6077>>, <<6086, 6086>>,
      <<6089, 6099>>, <<6103, 6103>>, <<6109, 6109>>, <<6155, 6159>>,
      <<6211, 6211>>, <<6277, 6278>>, <<6313, 6313>>, <<6432, 6434>>,
      <<6439, 6440>>, <<6450, 6450>>, <<6457, 6459>>, <<6679, 6680>>,
      <<6683, 6683>>, <<6742, 6742>>, <<6744, 6750>>, <<6752, 6752>>,
      <<6754, 6754>>, <<6757, 6764>>, <<6771, 6780>>, <<6783, 6783>>,
      <<6823, 6823>>, <<6832, 6862>>, <<6912, 6915>>, <<6964, 6964>>,
      <<6966, 6970>>, <<6972, 6972>>, <<6978, 6978>>, <<7019, 7027>>,
      <<7040, 7041>>, <<7074, 7077>>, <<7080, 7081>>, <<7083, 7085>>,
      <<7142, 7142>>, <<7144, 7145>>, <<7149, 7149>>, <<7151, 7153>>,
      <<7212, 7219>>, <<7222, 7223>>, <<7288, 7293>>, <<7376, 7378>>,
      <<7380, 7392>>, <<7394, 7400>>, <<7405, 7405>>, <<7412, 7412>>,
      <<7416, 7417>>, <<7468, 7530>>, <<7544, 7544>>, <<7579, 7679>>,
      <<8125, 8125>>, <<8127, 8129>>, <<8141, 8143>>, <<8157, 8159>>,
      <<8173, 8175>>, <<8189, 8190>>, <<8203, 8207>>, <<8216, 8217>>,
      <<8228, 8228>>, <<8231, 8231>>, <<8234, 8238>>, <<8288, 8292>>,
      <<8294, 8303>>, <<8305, 8305>>, <<8319, 8319>>, <<8336, 8348>>,
      <<8400, 8432>>, <<11388, 11389>>, <<11503, 11505>>, <<11631, 11631>>,
      <<11647, 11647>>, <<11744, 11775>>, <<11823, 11823>>, <<12293, 12293>>,
      <<12330, 12333>>, <<12337, 12341>>, <<12347, 12347>>, <<12441, 12446>>,
      <<12540, 12542>>, <<40981, 40981>>, <<42232, 42237>>, <<42508, 42508>>,
      <<42607, 42610>>, <<42612, 42621>>, <<42623, 42623>>, <<42652, 42655>>,
      <<42736, 42737>>, <<42752, 42785>>, <<42864, 42864>>, <<42888, 42890>>,
      <<42994, 42996>>, <<43000, 43001>>, <<43010, 43010>>, <<43014, 43014>>,
      <<43019, 43019>>, <<43045, 43046>>, <<43052, 43052>>, <<43204, 43205>>,
      <<43232, 43249>>, <<43263, 43263>>, <<43302, 43309>>, <<43335, 43345>>,
      <<43392, 43394>>, <<43443, 43443>>, <<43446, 43449>>, <<43452, 43453>>,
      <<43471, 43471>>, <<43493, 43494>>, <<43561, 43566>>, <<43569, 43570>>,
      <<43573, 43574>>, <<43587, 43587>>, <<43596, 43596>>, <<43632, 43632>>,
      <<43644, 43644>>, <<43696, 43696>>, <<43698, 43700>>, <<43703, 43704>>,
      <<43710, 43711>>, <<43713, 43713>>, <<43741, 43741>>, <<43756, 43757>>,
      <<43763, 43764>>, <<43766, 43766>>, <<43867, 43871>>, <<43881, 43883>>,
      <<44005, 44005>>, <<44008, 44008>>, <<44013, 44013>>, <<64286, 64286>>,
      <<64434, 64450>>, <<65024, 65039>>, <<65043, 65043>>, <<65056, 65071>>,
      <<65106, 65106>>, <<65109, 65109>>, <<65279, 65279>>, <<65287, 65287>>,
      <<65294, 65294>>, <<65306, 65306>>, <<65342, 65342>>, <<65344, 65344>>,
      <<65392, 65392>>, <<65438, 65439>>, <<65507, 65507>>, <<65529, 65531>>,
      <<66045, 66045>>, <<66272, 66272>>, <<66422, 66426>>, <<67456, 67461>>,
      <<67463, 67504>>, <<67506, 67514>>, <<68097, 68099>>, <<68101, 68102>>,
      <<68108, 68111>>, <<68152, 68154>>, <<68159, 68159>>, <<68325, 68326>>,
      <<68900, 68903>>, <<69291, 69292>>, <<69446, 69456>>, <<69506, 69509>>,
      <<69633, 69633>>, <<69688, 69702>>, <<69744, 69744>>, <<69747, 69748>>,
      <<69759, 69761>>, <<69811, 69814>>, <<69817, 69818>>, <<69821, 69821>>,
      <<69826, 69826>>, <<69837, 69837>>, <<69888, 69890>>, <<69927, 69931>>,
      <<69933, 69940>>, <<70003, 70003>>, <<70016, 70017>>, <<70070, 70078>>,
      <<70089, 70092>>, <<70095, 70095>>, <<70191, 70193>>, <<70196, 70196>>,
      <<70198, 70199>>, <<70206, 70206>>, <<70367, 70367>>, <<70371, 70378>>,
      <<70400, 70401>>, <<70459, 70460>>, <<70464, 70464>>, <<70502, 70508>>,
      <<70512, 70516>>, <<70712, 70719>>, <<70722, 70724>>, <<70726, 70726>>,
      <<70750, 70750>>, <<70835, 70840>>, <<70842, 70842>>, <<70847, 70848>>,
      <<70850, 70851>>, <<71090, 71093>>, <<71100, 71101>>, <<71103, 71104>>,
      <<71132, 71133>>, <<71219, 71226>>, <<71229, 71229>>, <<71231, 71232>>,
      <<71339, 71339>>, <<71341, 71341>>, <<71344, 71349>>, <<71351, 71351>>,
      <<71453, 71455>>, <<71458, 71461>>, <<71463, 71467>>, <<71727, 71735>>,
      <<71737, 71738>>, <<71995, 71996>>, <<71998, 71998>>, <<72003, 72003>>,
      <<72148, 72151>>, <<72154, 72155>>, <<72160, 72160>>, <<72193, 72202>>,
      <<72243, 72248>>, <<72251, 72254>>, <<72263, 72263>>, <<72273, 72278>>,
      <<72281, 72283>>, <<72330, 72342>>, <<72344, 72345>>, <<72752, 72758>>,
      <<72760, 72765>>, <<72767, 72767>>, <<72850, 72871>>, <<72874, 72880>>,
      <<72882, 72883>>, <<72885, 72886>>, <<73009, 73014>>, <<73018, 73018>>,
      <<73020, 73021>>, <<73023, 73029>>, <<73031, 73031>>, <<73104, 73105>>,
      <<73109, 73109>>, <<73111, 73111>>, <<73459, 73460>>, <<78896, 78904>>,
      <<92912, 92916>>, <<92976, 92982>>, <<92992, 92995>>, <<94031, 94031>>,
      <<94095, 94111>>, <<94176, 94177>>, <<94179, 94180>>, <<110576, 110579>>,
      <<110581, 110587>>, <<110589, 110590>>, <<113821, 113822>>,
      <<113824, 113827>>, <<118528, 118573>>, <<118576, 118598>>,
      <<119143, 119145>>, <<119155, 119170>>, <<119173, 119179>>,
      <<119210, 119213>>, <<119362, 119364>>, <<121344, 121398>>,
      <<121403, 121452>>, <<121461, 121461>>, <<121476, 121476>>,
      <<121499, 121503>>, <<121505, 121519>>, <<122880, 122886>>,
      <<122888, 122904>>, <<122907, 122913>>, <<122915, 122916>>,
      <<122918, 122922>>, <<123184, 123197>>, <<123566, 123566>>,
      <<123628, 123631>>, <<125136, 125142>>, <<125252, 125259>>,
      <<127995, 127999>>, <<917505, 917505>>, <<917536, 917631>>,
      <<917760, 917999>>>>

\* c lies in one of the ranges <<first, last>>
InRanges(c, ranges) == \E i \in DOMAIN ranges : ranges[i][1] <= c /\ c <= ranges[i][2]

\* the case mapping of a character above ASCII, the str it becomes: special
\* holds the characters that map to several, and a row <<first, last, step,
\* offset>> maps every step-th character from first to last
MapChar(c, rows, special) ==
    LET several == {i \in DOMAIN special : special[i][1] = c}
        single == {i \in DOMAIN rows :
                      /\ rows[i][1] <= c /\ c <= rows[i][2]
                      /\ (c - rows[i][1]) % rows[i][3] = 0}
    IN IF several # {} THEN special[CHOOSE i \in several : TRUE][2]
       ELSE IF single # {} THEN <<c + rows[CHOOSE i \in single : TRUE][4]>>
       ELSE <<c>>

\* c.upper(), c.lower() and c.title() for one character c
UpperChar(c) ==
    IF c < 128 THEN <<IF 97 (* 'a' *) <= c /\ c <= 122 (* 'z' *) THEN c - 32 ELSE c>>
    ELSE MapChar(c, UpperRanges, UpperSpecial)
LowerChar(c) ==
    IF c < 128 THEN <<IF 65 (* 'A' *) <= c /\ c <= 90 (* 'Z' *) THEN c + 32 ELSE c>>
    ELSE MapChar(c, LowerRanges, LowerSpecial)
TitleChar(c) ==
    IF c < 128 THEN <<IF 97 (* 'a' *) <= c /\ c <= 122 (* 'z' *) THEN c - 32 ELSE c>>
    ELSE MapChar(c, TitleRanges, TitleSpecial)

\* the sequences of a sequence, joined
RECURSIVE Flatten(_)
Flatten(rows) == IF rows = <<>> THEN <<>> ELSE Head(rows) \o Flatten(Tail(rows))

\* str.upper()
Upper(s) == Flatten([i \in 1..Len(s) |-> UpperChar(s[i])])

\* the index of the first character that is not case-ignorable, from index j
\* on in steps of d (0 or Len(s) + 1 when there is none)
RECURSIVE SkipIgnorable(_, _, _)
SkipIgnorable(s, j, d) ==
    IF j >= 1 /\ j <= Len(s) /\ InRanges(s[j], CaseIgnorableRanges)
    THEN SkipIgnorable(s, j + d, d) ELSE j
\* that character exists and is cased
CasedNext(s, j, d) ==
    LET k == SkipIgnorable(s, j, d)
    IN k >= 1 /\ k <= Len(s) /\ InRanges(s[k], CasedRanges)

\* the character at index i of s, lower-cased: a capital sigma (931) becomes
\* the final sigma (962) when a cased character precedes it and none follows,
\* case-ignorable characters being skipped on both sides
LowerAt(s, i) ==
    IF s[i] = 931 /\ CasedNext(s, i - 1, -1) /\ ~CasedNext(s, i + 1, 1)
    THEN <<962>> ELSE LowerChar(s[i])

\* str.lower()
Lower(s) == Flatten([i \in 1..Len(s) |-> LowerAt(s, i)])

\* str.capitalize(): first character title-cased, the rest lower-cased
Capitalize(s) == Flatten([i \in 1..Len(s) |-> IF i = 1 THEN TitleChar(s[i]) ELSE LowerAt(s, i)])

IsSpace(c) == c \in Whitespace
IsDigit(c) ==
    IF c < 128 THEN 48 (* '0' *) <= c /\ c <= 57 (* '9' *)
    ELSE \E z \in DecimalZeros : z <= c /\ c <= z + 9

\* sub in s
Contains(s, sub) ==
    \E i \in 1..(Len(s) - Len(sub) + 1) : SubSeq(s, i, i + Len(sub) - 1) = sub

\* s.count(sub): non-overlapping occurrences, left to right
RECURSIVE Count(_, _)
Count(s, sub) ==
    IF Len(s) < Len(sub) THEN 0
    ELSE IF SubSeq(s, 1, Len(sub)) = sub
         THEN 1 + Count(SubSeq(s, Len(sub) + 1, Len(s)), sub)
         ELSE Count(Tail(s), sub)

\* s.replace(sub, ""): non-overlapping occurrences removed, left to right
RECURSIVE Remove(_, _)
Remove(s, sub) ==
    IF Len(s) < Len(sub) THEN s
    ELSE IF SubSeq(s, 1, Len(sub)) = sub
         THEN Remove(SubSeq(s, Len(sub) + 1, Len(s)), sub)
         ELSE <<Head(s)>> \o Remove(Tail(s), sub)

\* s with the characters of cs removed from both its ends
RECURSIVE StripOf(_, _)
StripOf(s, cs) ==
    IF s # <<>> /\ Head(s) \in cs THEN StripOf(Tail(s), cs)
    ELSE IF s # <<>> /\ s[Len(s)] \in cs THEN StripOf(SubSeq(s, 1, Len(s) - 1), cs)
    ELSE s

\* s.strip()
Strip(s) == StripOf(s, Whitespace)

\* index of the first element of s in set cs, 0 when there is none
FirstIn(s, cs) ==
    IF \E i \in 1..Len(s) : s[i] \in cs
    THEN CHOOSE i \in 1..Len(s) : s[i] \in cs /\ \A j \in 1..(i - 1) : s[j] \notin cs
    ELSE 0

\* s.split(c): every piece between occurrences of the character c
RECURSIVE SplitOn(_, _)
SplitOn(s, c) ==
    LET i == FirstIn(s, {c})
    IN IF i = 0 THEN <<s>>
       ELSE <<SubSeq(s, 1, i - 1)>> \o SplitOn(SubSeq(s, i + 1, Len(s)), c)

\* s.split(c, 1): at most one split, at the first occurrence of c
SplitFirst(s, c) ==
    LET i == FirstIn(s, {c})
    IN IF i = 0 THEN <<s>>
       ELSE <<SubSeq(s, 1, i - 1), SubSeq(s, i + 1, Len(s))>>

\* s.split(): the maximal runs of non-whitespace characters
RECURSIVE SplitWs(_)
SplitWs(s) ==
    LET t == Strip(s)
        i == FirstIn(t, Whitespace)
    IN IF t = <<>> THEN <<>>
       ELSE IF i = 0 THEN <<t>>
       ELSE <<SubSeq(t, 1, i - 1)>> \o SplitWs(SubSeq(t, i, Len(t)))

\* "\n".join(lines)
RECURSIVE JoinLines(_)
JoinLines(lines) ==
    IF lines = <<>> THEN <<>>
    ELSE IF Len(lines) = 1 THEN lines[1]
    ELSE lines[1] \o <<10 (* '\n' *)>> \o JoinLines(Tail(lines))

\* the value 0..9 of a decimal digit
DigitValue(c) ==
    IF c < 128 THEN c - 48 (* '0' *)
    ELSE c - (CHOOSE z \in DecimalZeros : z <= c /\ c <= z + 9)

\* str(n) for a natural number n
RECURSIVE Digits(_)
Digits(n) == IF n < 10 THEN <<48 (* '0' *) + n>>
             ELSE Digits(n \div 10) \o <<48 (* '0' *) + (n % 10)>>

\* the value of a non-empty sequence of decimal digits
RECURSIVE DigitsValue(_)
DigitsValue(s) == IF s = <<>> THEN 0
                  ELSE 10 * DigitsValue(SubSeq(s, 1, Len(s) - 1)) + DigitValue(s[Len(s)])

\* what int() reads in place of a character: ASCII as it is, any other
\* whitespace as a space, any other decimal digit as its ASCII digit, and
\* anything else as a question mark
AsciiOf(c) ==
    IF c < 127 THEN c
    ELSE IF IsSpace(c) THEN 32 (* ' ' *)
    ELSE IF IsDigit(c) THEN 48 (* '0' *) + DigitValue(c)
    ELSE 63 (* '?' *)

\* int(s): surrounding whitespace (of ASCII, once the text is made ASCII), an
\* optional sign, then decimal digits with single underscores between them;
\* ValueError otherwise
ParseInt(s) ==
    LET t == StripOf([i \in 1..Len(s) |-> AsciiOf(s[i])],
                     {9 (* '\t' *), 10 (* '\n' *), 11 (* '\x0b' *), 12 (* '\x0c' *), 13 (* '\r' *), 32 (* ' ' *)})
        signed == t # <<>> /\ Head(t) \in {43 (* '+' *), 45 (* '-' *)}
        body == IF signed THEN Tail(t) ELSE t
        digits == SelectSeq(body, IsDigit)
    IN IF /\ body # <<>>
          /\ \A i \in 1..Len(body) : IsDigit(body[i]) \/ body[i] = 95 (* '_' *)
          /\ IsDigit(body[1]) /\ IsDigit(body[Len(body)])
          /\ \A i \in 1..(Len(body) - 1) : body[i] = 95 (* '_' *) => body[i + 1] # 95 (* '_' *)
       THEN Ok(IF signed /\ Head(t) = 45 (* '-' *) THEN -DigitsValue(digits) ELSE DigitsValue(digits))
       ELSE Raise("ValueError")

\* re.search(r'\d+', s): the first maximal run of digits; <<>> stands for the
\* result None (s has no digit), which no match can equal
SearchDigits(s) ==
    LET digits == {k \in 1..Len(s) : IsDigit(s[k])}
        first == CHOOSE k \in digits : \A j \in digits : k <= j
        last == CHOOSE k \in first..Len(s) :
                    (\A j \in first..k : j \in digits) /\ (k + 1) \notin digits
    IN IF digits = {} THEN <<>> ELSE SubSeq(s, first, last)

\* f"{hour:02d}:00"
HourText(hour) ==
    (IF hour < 10 THEN <<48>> (* "0" *) ELSE <<>>) \o Digits(hour) \o <<58, 48, 48>> (* ":00" *)

(***************************************************************************)
(* Numbers.  available_hours is ah2 half hours.  Every other float is an   *)
(* IEEE-754 binary64 value s * m * 2^e, computed with the rounding of the  *)
(* hardware: m is a natural number of MantissaBits bits held as            *)
(* little-endian limbs below LimbBase (<<>> is 0), and 0.0 is              *)
(* [s |-> 1, m |-> <<>>, e |-> 0].  The values of this program stay far    *)
(* from the exponent limits, so overflow, subnormals, infinities and NaN   *)
(* are left out, and so is the sign of zero.                               *)
(***************************************************************************)
Max(a, b) == IF a >= b THEN a ELSE b
Min(a, b) == IF a <= b THEN a ELSE b
Abs(a) == IF a < 0 THEN -a ELSE a

MantissaBits == 53
LimbBits == 15
LimbBase == 2 ^ LimbBits

RECURSIVE BigTrim(_)
BigTrim(a) ==
    IF a # <<>> /\ a[Len(a)] = 0 THEN BigTrim(SubSeq(a, 1, Len(a) - 1)) ELSE a

RECURSIVE BigOfInt(_)
BigOfInt(n) == IF n = 0 THEN <<>> ELSE <<n % LimbBase>> \o BigOfInt(n \div LimbBase)

\* a + b + c for a carry c of 0 or 1
RECURSIVE BigAdd(_, _, _)
BigAdd(a, b, c) ==
    IF a = <<>> /\ b = <<>> THEN (IF c = 0 THEN <<>> ELSE <<c>>)
    ELSE LET x == (IF a = <<>> THEN 0 ELSE a[1]) + (IF b = <<>> THEN 0 ELSE b[1]) + c
         IN <<x % LimbBase>>
            \o BigAdd(IF a = <<>> THEN <<>> ELSE Tail(a),
                      IF b = <<>> THEN <<>> ELSE Tail(b), x \div LimbBase)

\* a - b - c for a >= b + c
RECURSIVE BigSubB(_, _, _)
BigSubB(a, b, c) ==
    IF a = <<>> THEN <<>>
    ELSE LET x == a[1] - (IF b = <<>> THEN 0 ELSE b[1]) - c
         IN <<(x + LimbBase) % LimbBase>>
            \o BigSubB(Tail(a), IF b = <<>> THEN <<>> ELSE Tail(b), IF x < 0 THEN 1 ELSE 0)
BigSub(a, b) == BigTrim(BigSubB(a, b, 0))

RECURSIVE BigCmpFrom(_, _, _)
BigCmpFrom(a, b, i) ==
    IF i = 0 THEN 0
    ELSE IF a[i] < b[i] THEN -1
    ELSE IF a[i] > b[i] THEN 1
    ELSE BigCmpFrom(a, b, i - 1)
\* -1, 0, 1 as a < b, a = b, a > b
BigCmp(a, b) ==
    IF Len(a) < Len(b) THEN -1
    ELSE IF Len(a) > Len(b) THEN 1
    ELSE BigCmpFrom(a, b, Len(a))

\* a * k + c for 0 < k < LimbBase
RECURSIVE BigMulSmall(_, _, _)
BigMulSmall(a, k, c) ==
    IF a = <<>> THEN (IF c = 0 THEN <<>> ELSE <<c>>)
    ELSE LET x == a[1] * k + c
         IN <<x % LimbBase>> \o BigMulSmall(Tail(a), k, x \div LimbBase)

RECURSIVE BigMul(_, _)
BigMul(a, b) ==
    IF a = <<>> \/ b = <<>> THEN <<>>
    ELSE LET rest == BigMul(a, Tail(b))
             low == IF b[1] = 0 THEN <<>> ELSE BigMulSmall(a, b[1], 0)
         IN BigAdd(low, IF rest = <<>> THEN <<>> ELSE <<0>> \o rest, 0)

\* a * 2^k and a \div 2^k
BigShl(a, k) ==
    IF a = <<>> THEN <<>>
    ELSE [i \in 1..(k \div LimbBits) |-> 0] \o BigMulSmall(a, 2 ^ (k % LimbBits), 0)
BigShr(a, k) ==
    LET d == k \div LimbBits
        r == k % LimbBits
        a2 == IF d >= Len(a) THEN <<>> ELSE SubSeq(a, d + 1, Len(a))
    IN BigTrim([i \in 1..Len(a2) |->
                   (a2[i] \div 2 ^ r)
                   + (IF i < Len(a2) THEN (a2[i + 1] % 2 ^ r) * 2 ^ (LimbBits - r) ELSE 0)])

RECURSIVE SmallBitLen(_)
SmallBitLen(n) == IF n = 0 THEN 0 ELSE 1 + SmallBitLen(n \div 2)
BigBitLen(a) ==
    IF a = <<>> THEN 0 ELSE LimbBits * (Len(a) - 1) + SmallBitLen(a[Len(a)])

\* the largest digit g with g * d <= r, for r < LimbBase * d and a divisor d
\* whose leading limb is at least LimbBase / 2: the quotient of the leading
\* limbs is g or a little above it
RECURSIVE DigitDown(_, _, _)
DigitDown(r, d, g) ==
    IF g = 0 \/ BigCmp(BigMulSmall(d, g, 0), r) <= 0 THEN g ELSE DigitDown(r, d, g - 1)
DivDigit(r, d) ==
    IF Len(r) < Len(d) THEN 0
    ELSE LET lead == r[Len(d)] + (IF Len(r) > Len(d) THEN LimbBase * r[Len(d) + 1] ELSE 0)
         IN DigitDown(r, d, Min(lead \div d[Len(d)], LimbBase - 1))

\* one step of long division: the limb x is brought down to the remainder r,
\* the digit g is taken from it and added to the quotient q
DivSubtract(q, r, d, g) ==
    <<BigTrim(<<g>> \o q), IF g = 0 THEN r ELSE BigSub(r, BigMulSmall(d, g, 0))>>
DivTake(q, r, d) == DivSubtract(q, r, d, DivDigit(r, d))
DivStep(above, x, d) == DivTake(above[1], BigTrim(<<x>> \o above[2]), d)

\* long division, limb i of n and the limbs above it: <<quotient, remainder>>
RECURSIVE BigDivFrom(_, _, _)
BigDivFrom(n, d, i) ==
    DivStep(IF i = Len(n) THEN <<<<>>, <<>>>> ELSE BigDivFrom(n, d, i + 1), n[i], d)

\* <<n \div d, n % d>> for d > 0: both are scaled by 2^k so that the leading
\* limb of the divisor is at least LimbBase / 2
BigUnscale(qr, k) == <<qr[1], BigShr(qr[2], k)>>
BigDivScaled(n, d, k) ==
    IF n = <<>> THEN <<<<>>, <<>>>>
    ELSE BigUnscale(BigDivFrom(BigShl(n, k), BigShl(d, k), 1), k)
BigDivMod(n, d) == BigDivScaled(n, d, LimbBits - SmallBitLen(d[Len(d)]))

FZero == [s |-> 1, m |-> <<>>, e |-> 0]

\* the float nearest to s * n * 2^e for a natural n > 0, ties to the even
\* mantissa: n is cut to MantissaBits bits, q, and goes up by one when more
\* than half a unit was cut, or exactly half and q is odd
FNormal(s, m, e) ==
    IF BigBitLen(m) > MantissaBits
    THEN [s |-> s, m |-> BigShr(m, 1), e |-> e + 1]
    ELSE [s |-> s, m |-> m, e |-> e]
FRoundUp(s, q, c, e) ==
    FNormal(s, IF c > 0 \/ (c = 0 /\ q[1] % 2 = 1) THEN BigAdd(q, <<1>>, 0) ELSE q, e)
FRoundCut(s, n, q, k, e) ==
    FRoundUp(s, q, BigCmp(BigSub(n, BigShl(q, k)), BigShl(<<1>>, k - 1)), e + k)
FRoundAt(s, n, k, e) ==
    IF k <= 0 THEN [s |-> s, m |-> BigShl(n, -k), e |-> e + k]
    ELSE FRoundCut(s, n, BigShr(n, k), k, e)
FRound(s, n, e) == FRoundAt(s, n, BigBitLen(n) - MantissaBits, e)

\* the float nearest to s * (n / d) * 2^e for naturals n, d > 0: the quotient
\* to MantissaBits + 1 or + 2 bits, then one more bit that says whether
\* anything remains
FRoundSticky(s, qr, e) ==
    FRound(s, BigAdd(qr[1], qr[1], IF qr[2] = <<>> THEN 0 ELSE 1), e)
FRoundQuotient(s, n, d, sh, e) ==
    FRoundSticky(s, BigDivMod(IF sh >= 0 THEN BigShl(n, sh) ELSE n,
                              IF sh >= 0 THEN d ELSE BigShl(d, -sh)), e - sh - 1)
FRoundDiv(s, n, d, e) ==
    FRoundQuotient(s, n, d, MantissaBits + 1 + BigBitLen(d) - BigBitLen(n), e)

\* the float written n/d, as in the literal 0.7 (7/10) or the quotient of two
\* small integers, d > 0
Float(n, d) ==
    IF n = 0 THEN FZero
    ELSE FRoundDiv(IF n < 0 THEN -1 ELSE 1, BigOfInt(Abs(n)), BigOfInt(d), 0)

FOne == Float(1, 1)

FSign(a) == IF a.m = <<>> THEN 0 ELSE a.s
\* -1, 0, 1 as |a| < |b|, |a| = |b|, |a| > |b|, for a, b # 0
FCmpAbs(a, b) ==
    IF a.e < b.e THEN -1 ELSE IF a.e > b.e THEN 1 ELSE BigCmp(a.m, b.m)
\* -1, 0, 1 as a < b, a = b, a > b
FCmp(a, b) ==
    IF FSign(a) # FSign(b) THEN (IF FSign(a) < FSign(b) THEN -1 ELSE 1)
    ELSE IF FSign(a) = 0 THEN 0
    ELSE FSign(a) * FCmpAbs(a, b)
FLess(a, b) == FCmp(a, b) < 0

FMul(a, b) ==
    IF a.m = <<>> \/ b.m = <<>> THEN FZero
    ELSE FRound(a.s * b.s, BigMul(a.m, b.m), a.e + b.e)

\* a / b for b # 0
FDiv(a, b) ==
    IF a.m = <<>> THEN FZero ELSE FRoundDiv(a.s * b.s, a.m, b.m, a.e - b.e)

\* x * 2^e and y * 2^e with the signs sa and sb, added
FSubAligned(sa, x, sb, y, c, e) ==
    IF c = 0 THEN FZero
    ELSE IF c > 0 THEN FRound(sa, BigSub(x, y), e)
    ELSE FRound(sb, BigSub(y, x), e)
FAddAligned(sa, x, sb, y, e) ==
    IF sa = sb THEN FRound(sa, BigAdd(x, y, 0), e)
    ELSE FSubAligned(sa, x, sb, y, BigCmp(x, y), e)
FAdd(a, b) ==
    IF a.m = <<>> THEN b
    ELSE IF b.m = <<>> THEN a
    ELSE FAddAligned(a.s, BigShl(a.m, a.e - Min(a.e, b.e)),
                     b.s, BigShl(b.m, b.e - Min(a.e, b.e)), Min(a.e, b.e))

(***************************************************************************)
(* SimpleScheduler._format_time                                            *)
(***************************************************************************)
AM == <<65, 77>> (* "AM" *)
PM == <<80, 77>> (* "PM" *)

\* a _format_time without the 12 AM / 12 PM exceptions
FormatTimeNoNoonRule(time_str) ==
    LET t == Upper(Remove(time_str, <<32>> (* " " *)))
    IN IF Contains(t, AM) \/ Contains(t, PM)
       THEN LET m == SearchDigits(SplitOn(t, 58 (* ':' *))[1])
            IN IF m = <<>> THEN t
               ELSE LET hour == DigitsValue(m)
                        h24 == IF Contains(t, PM) THEN hour + 12
                               ELSE IF Contains(t, AM) /\ hour = 12 THEN 0
                               ELSE hour
                    IN HourText(h24)
       ELSE t

\* lines 229-244
FormatTime(time_str) ==
    LET t == Upper(Remove(time_str, <<32>> (* " " *)))
    IN IF Contains(t, AM) \/ Contains(t, PM)
       THEN LET m == SearchDigits(SplitOn(t, 58 (* ':' *))[1])
            IN \* re.search(...) is None: .group() raises, the handler returns time_str
               IF m = <<>> THEN t
               ELSE LET hour == DigitsValue(m)
                        h24 == IF Contains(t, PM) /\ hour # 12 THEN hour + 12
                               ELSE IF Contains(t, AM) /\ hour = 12 THEN 0
                               ELSE hour
                    IN HourText(h24)
       ELSE t

(***************************************************************************)
(* SimpleScheduler._get_priority                                           *)
(***************************************************************************)
HIGH == <<72, 73, 71, 72>> (* "HIGH" *)
MEDIUM == <<77, 69, 68, 73, 85, 77>> (* "MEDIUM" *)
LOW == <<76, 79, 87>> (* "LOW" *)

\* a static rule whose LOW band starts at 20 instead of 21
StaticPriorityLowFromTwenty(hour) ==
    IF 9 <= hour /\ hour <= 11 THEN HIGH
    ELSE IF 14 <= hour /\ hour <= 16 THEN HIGH
    ELSE IF hour < 8 \/ hour >= 20 THEN LOW
    ELSE MEDIUM

\* lines 220-227
StaticPriority(hour) ==
    IF 9 <= hour /\ hour <= 11 THEN HIGH
    ELSE IF 14 <= hour /\ hour <= 16 THEN HIGH
    ELSE IF hour < 8 \/ hour > 20 THEN LOW
    ELSE MEDIUM

\* the thresholds 0.7 and 0.4 of lines 213 and 215
HighThreshold == Float(7, 10)
MediumThreshold == Float(4, 10)

ProbPriority(prob) ==
    IF ~FLess(prob, HighThreshold) THEN HIGH
    ELSE IF ~FLess(prob, MediumThreshold) THEN MEDIUM
    ELSE LOW

\* a slot is <<hour, prob>>; slots is Nothing (None) or Some(sequence of slots)
GetPriority(hour, slots) ==
    LET sl == slots.v
    IN IF ~slots.none /\ sl # <<>> /\ \E i \in 1..Len(sl) : sl[i][1] = hour
       THEN LET i == CHOOSE k \in 1..Len(sl) :
                         sl[k][1] = hour /\ \A j \in 1..(k - 1) : sl[j][1] # hour
            IN ProbPriority(sl[i][2])
       ELSE StaticPriority(hour)


\* int(available_hours): truncation toward zero
IntOfHours(ah2) == IF ah2 >= 0 THEN ah2 \div 2 ELSE -((-ah2) \div 2)

(***************************************************************************)
(* SimpleScheduler.extract_features                                        *)
(***************************************************************************)
KeywordCategories ==
    [is_creative |-> <<<<100, 101, 115, 105, 103, 110>> (* "design" *), <<99, 114, 101, 97, 116, 101>> (* "create" *), <<100, 101, 118, 101, 108, 111, 112>> (* "develop" *), <<98, 117, 105, 108, 100>> (* "build" *), <<105, 109, 112, 108, 101, 109, 101, 110, 116>> (* "implement" *)>>,
     is_analytical |-> <<<<97, 110, 97, 108, 121, 122, 101>> (* "analyze" *), <<114, 101, 115, 101, 97, 114, 99, 104>> (* "research" *), <<115, 116, 117, 100, 121>> (* "study" *), <<105, 110, 118, 101, 115, 116, 105, 103, 97, 116, 101>> (* "investigate" *), <<115, 111, 108, 118, 101>> (* "solve" *)>>,
     is_planning |-> <<<<112, 108, 97, 110>> (* "plan" *), <<111, 114, 103, 97, 110, 105, 122, 101>> (* "organize" *), <<115, 99, 104, 101, 100, 117, 108, 101>> (* "schedule" *), <<99, 111, 111, 114, 100, 105, 110, 97, 116, 101>> (* "coordinate" *), <<97, 114, 114, 97, 110, 103, 101>> (* "arrange" *)>>,
     prefers_morning |-> <<<<109, 111, 114, 110, 105, 110, 103>> (* "morning" *), <<101, 97, 114, 108, 121>> (* "early" *), <<97, 109>> (* "am" *)>>,
     prefers_afternoon |-> <<<<97, 102, 116, 101, 114, 110, 111, 111, 110>> (* "afternoon" *), <<108, 117, 110, 99, 104>> (* "lunch" *), <<112, 109>> (* "pm" *)>>,
     prefers_evening |-> <<<<101, 118, 101, 110, 105, 110, 103>> (* "evening" *), <<110, 105, 103, 104, 116>> (* "night" *), <<108, 97, 116, 101>> (* "late" *)>>,
     style_visual |-> <<<<118, 105, 115, 117, 97, 108>> (* "visual" *), <<115, 101, 101>> (* "see" *), <<119, 97, 116, 99, 104>> (* "watch" *), <<108, 111, 111, 107>> (* "look" *)>>,
     style_auditory |-> <<<<108, 105, 115, 116, 101, 110>> (* "listen" *), <<104, 101, 97, 114>> (* "hear" *), <<100, 105, 115, 99, 117, 115, 115>> (* "discuss" *), <<116, 97, 108, 107>> (* "talk" *)>>,
     style_kinesthetic |-> <<<<112, 114, 97, 99, 116, 105, 99, 101>> (* "practice" *), <<104, 97, 110, 100, 115, 45, 111, 110>> (* "hands-on" *), <<100, 111>> (* "do" *), <<101, 120, 112, 101, 114, 105, 101, 110, 99, 101>> (* "experience" *)>>]

DeadlineWords == <<<<100, 101, 97, 100, 108, 105, 110, 101>> (* "deadline" *), <<100, 117, 101>> (* "due" *), <<117, 114, 103, 101, 110, 116>> (* "urgent" *), <<97, 115, 97, 112>> (* "asap" *), <<112, 114, 105, 111, 114, 105, 116, 121>> (* "priority" *)>>

\* float(any(kw in unique_words or kw in considerations_lower for kw in keywords))
KeywordFlag(keywords, unique_words, considerations_lower) ==
    IF \E i \in 1..Len(keywords) :
           keywords[i] \in unique_words \/ Contains(considerations_lower, keywords[i])
    THEN FOne ELSE FZero

\* sum(word in text for word in words)
Hits(words, text) == Cardinality({i \in 1..Len(words) : Contains(text, words[i])})

\* the feature mapping built on lines 32-71; raises ZeroDivisionError on line 43
\* when goals has no token
FeatureMap(goals, ah2, considerations) ==
    LET words == SplitWs(Lower(goals))
        unique_words == {words[i] : i \in 1..Len(words)}
        cl == Lower(considerations)
        start2 == Max(12, 48 - ah2)
    IN IF Len(words) = 0 THEN Raise("ZeroDivisionError")
       ELSE Ok([available_hours |-> Float(ah2, 2),
                start_hour |-> Float(start2, 2),
                end_hour |-> Float(Min(44, start2 + ah2), 2),
                duration_blocks |-> Float(ah2, 4),
                task_complexity |-> Float(Len(words), 10),
                task_diversity |-> Float(Cardinality(unique_words), Len(words)),
                keyword_flags |-> [c \in DOMAIN KeywordCategories |->
                                      KeywordFlag(KeywordCategories[c], unique_words, cl)],
                urgency_score |-> Float(Hits(DeadlineWords, cl), Len(DeadlineWords)),
                has_meetings |-> IF Contains(cl, <<109, 101, 101, 116, 105, 110, 103>> (* "meeting" *)) THEN FOne ELSE FZero,
                has_breaks |-> IF Contains(cl, <<98, 114, 101, 97, 107>> (* "break" *)) THEN FOne ELSE FZero,
                meeting_frequency |-> Float(Count(cl, <<109, 101, 101, 116, 105, 110, 103>> (* "meeting" *)), 1)])

\* env.reindex_ok, env.transform_ok: whether DataFrame.reindex and
\* scaler.transform succeed on this call (they belong to the loaded artifacts).
\* The result is the feature mapping with what was applied to it: aligned to
\* feature_names (lines 75-80), scaled by the scaler (lines 82-87).
ExtractFeatures(goals, ah2, considerations, env) ==
    LET fm == FeatureMap(goals, ah2, considerations)
    IN IF fm.exc # NoExc THEN fm
       ELSE Ok([features |-> fm.val,
                aligned |-> feature_names /\ env.reindex_ok,
                scaled |-> scaler /\ env.transform_ok])

(***************************************************************************)
(* SimpleScheduler.predict_optimal_slots                                   *)
(*                                                                         *)
(* pred is what rf_model.predict_proba does on this call: it raises, or    *)
(* returns a matrix, a sequence of rows of probabilities.                  *)
(***************************************************************************)
\* the factors 1.2, 1.1 and 0.8 of lines 113-115
MorningBoost == Float(12, 10)
AfternoonBoost == Float(11, 10)
EdgePenalty == Float(8, 10)

\* morning_boost * afternoon_boost * edge_penalty for one hour (lines 113-117)
Adjustment(hour) ==
    FMul(FMul(IF 9 <= hour /\ hour <= 11 THEN MorningBoost ELSE FOne,
              IF 14 <= hour /\ hour <= 16 THEN AfternoonBoost ELSE FOne),
         IF hour < 7 \/ hour > 20 THEN EdgePenalty ELSE FOne)

\* np.clip(p, 0, 1)
Clip(p) == IF FLess(p, FZero) THEN FZero ELSE IF FLess(FOne, p) THEN FOne ELSE p

\* sorted(slots, key=lambda x: x[1], reverse=True): stable, ties keep their order
RECURSIVE InsertDesc(_, _)
InsertDesc(sorted, slot) ==
    IF sorted = <<>> THEN <<slot>>
    ELSE IF FLess(Head(sorted)[2], slot[2]) THEN <<slot>> \o sorted
    ELSE <<Head(sorted)>> \o InsertDesc(Tail(sorted), slot)
RECURSIVE SortDesc(_)
SortDesc(slots) ==
    IF slots = <<>> THEN <<>>
    ELSE InsertDesc(SortDesc(SubSeq(slots, 1, Len(slots) - 1)), slots[Len(slots)])

\* valid_hours = hours[hour_mask], the hours 5..22
ValidHours == [i \in 1..18 |-> i + 4]
\* adjustments, one entry per valid hour (line 117)
Adjustments == [i \in 1..18 |-> Adjustment(ValidHours[i])]

\* a predict_optimal_slots without the try of lines 96-128
PredictOptimalSlotsUnguarded(pred) ==
    IF ~rf_model THEN Ok(Nothing)
    ELSE IF pred.raises THEN Raise(pred.error)
    ELSE IF Len(pred.rows) = 0 THEN Ok(Nothing)
    ELSE LET probs == IF Len(pred.rows[1]) > 1
                      THEN [i \in 1..Len(pred.rows) |-> pred.rows[i][2]]
                      ELSE Flatten(pred.rows)
         IN IF Len(probs) # 24 THEN Raise("IndexError")
            ELSE Ok(Some(SortDesc([i \in 1..18 |->
                     <<ValidHours[i],
                       Clip(FMul(probs[ValidHours[i] + 1], Adjustments[i]))>>])))

\* returns Ok(Nothing) for None, Ok(Some(slots)) for the sorted slot list
PredictOptimalSlots(pred) ==
    IF ~rf_model THEN Ok(Nothing)
    \* everything below is inside try/except Exception: return None
    ELSE IF pred.raises THEN Ok(Nothing)
    ELSE IF Len(pred.rows) = 0 THEN Ok(Nothing)
    ELSE LET probs == IF Len(pred.rows[1]) > 1
                      THEN [i \in 1..Len(pred.rows) |-> pred.rows[i][2]]
                      ELSE Flatten(pred.rows)
         IN \* probs[hour_mask] with a 24-entry mask raises IndexError otherwise
            IF Len(probs) # 24 THEN Ok(Nothing)
            ELSE Ok(Some(SortDesc([i \in 1..18 |->
                     <<ValidHours[i],
                       Clip(FMul(probs[ValidHours[i] + 1], Adjustments[i]))>>])))

(***************************************************************************)
(* SimpleScheduler.generate_dynamic_schedule                               *)
(***************************************************************************)
\* an hours_needed without the cap of 12
HoursNeededUncapped(ah2) == IntOfHours(ah2)

\* hours_needed = min(int(available_hours), 12)
HoursNeeded(ah2) == Min(IntOfHours(ah2), 12)

TimePreferences ==
    <<[time_of_day |-> "morning", keywords |-> <<<<109, 111, 114, 110, 105, 110, 103>> (* "morning" *), <<101, 97, 114, 108, 121>> (* "early" *), <<97, 109>> (* "am" *)>>, hour |-> 8],
      [time_of_day |-> "afternoon", keywords |-> <<<<97, 102, 116, 101, 114, 110, 111, 111, 110>> (* "afternoon" *), <<108, 117, 110, 99, 104>> (* "lunch" *), <<112, 109>> (* "pm" *)>>, hour |-> 12],
      [time_of_day |-> "evening", keywords |-> <<<<101, 118, 101, 110, 105, 110, 103>> (* "evening" *), <<110, 105, 103, 104, 116>> (* "night" *), <<108, 97, 116, 101>> (* "late" *)>>, hour |-> 16]>>

\* a scan that replaces the start hour on an equal count (>= for >)
RECURSIVE PreferenceScanLastWins(_, _)
PreferenceScanLastWins(considerations_lower, k) ==
    IF k = 0 THEN <<0, 9>>
    ELSE LET prev == PreferenceScanLastWins(considerations_lower, k - 1)
             score == Hits(TimePreferences[k].keywords, considerations_lower)
         IN IF score >= prev[1] /\ score > 0 THEN <<score, TimePreferences[k].hour>> ELSE prev

\* the loop of lines 148-152 over the first k entries of time_preferences:
\* <<max_preference_score, start_hour>> after k iterations
RECURSIVE PreferenceScan(_, _)
PreferenceScan(considerations_lower, k) ==
    IF k = 0 THEN <<0, 9>>
    ELSE LET prev == PreferenceScan(considerations_lower, k - 1)
             score == Hits(TimePreferences[k].keywords, considerations_lower)
         IN IF score > prev[1] THEN <<score, TimePreferences[k].hour>> ELSE prev

StartHour(considerations) ==
    PreferenceScan(Lower(considerations), Len(TimePreferences))[2]

\* base_probs 0.7 and the factors of time_adjustments (lines 157-162)
BaseScore == Float(7, 10)
MorningScore == Float(9, 10)
AfternoonScore == Float(8, 10)
EdgeScore == Float(6, 10)

\* an edge mask slot_hours >= 20 instead of slot_hours > 20
RuleScoreEdgeFromTwenty(slot_hour) ==
    IF slot_hour < 7 \/ slot_hour >= 20 THEN EdgeScore
    ELSE IF 14 <= slot_hour /\ slot_hour <= 16 THEN AfternoonScore
    ELSE IF 9 <= slot_hour /\ slot_hour <= 11 THEN MorningScore
    ELSE BaseScore

\* base 0.7, then the overrides morning, afternoon, edge in this order, the
\* last matching one winning (lines 157-170)
RuleScore(slot_hour) ==
    LET base == BaseScore
        morning == IF slot_hour >= 9 /\ slot_hour <= 11 THEN MorningScore ELSE base
        afternoon == IF slot_hour >= 14 /\ slot_hour <= 16 THEN AfternoonScore ELSE morning
        edge == IF slot_hour < 7 \/ slot_hour > 20 THEN EdgeScore ELSE afternoon
    IN edge

\* the rule-based fallback, lines 136-173; np.full(hours_needed, 0.7) raises
\* ValueError for a negative hours_needed
RuleSlots(hours_needed, considerations) ==
    IF hours_needed < 0 THEN Raise("ValueError")
    ELSE LET start_hour == StartHour(considerations)
         IN Ok([i \in 1..hours_needed |->
                  LET slot_hour == (start_hour + (i - 1)) % 24
                  IN <<slot_hour, RuleScore(slot_hour)>>])

\* s[:k] for a list s and an int k
Prefix(s, k) ==
    IF k >= 0 THEN SubSeq(s, 1, Min(k, Len(s)))
    ELSE SubSeq(s, 1, Max(0, Len(s) + k))

\* sum(prob for _, prob in slots): from 0, one addition per slot, left to right
RECURSIVE SumProbs(_)
SumProbs(slots) ==
    IF slots = <<>> THEN FZero
    ELSE FAdd(SumProbs(SubSeq(slots, 1, Len(slots) - 1)), slots[Len(slots)][2])

\* the classifier branch, lines 175-179
NormalisedSlots(optimal_slots, hours_needed) ==
    LET top == Prefix(optimal_slots, hours_needed)
        total_prob == SumProbs(top)
    IN IF FLess(FZero, total_prob)
       THEN [i \in 1..Len(top) |-> <<top[i][1], FDiv(top[i][2], total_prob)>>]
       ELSE top

\* the value of a run that returns: the slots, with the branch taken and
\* hours_needed as the run's record
Tagged(r, path, hours_needed) ==
    IF r.exc # NoExc THEN Raise(r.exc)
    ELSE Ok([slots |-> r.val, path |-> path, hours_needed |-> hours_needed])

\* lines 135-182, given what predict_optimal_slots returned
ScheduleSlots(optimal_slots, hours_needed, considerations) ==
    IF optimal_slots.exc # NoExc THEN Raise(optimal_slots.exc)
    ELSE IF optimal_slots.val.none
    THEN Tagged(RuleSlots(hours_needed, considerations), "rule-based", hours_needed)
    ELSE Tagged(Ok(NormalisedSlots(optimal_slots.val.v, hours_needed)), "classifier",
                hours_needed)

\* lines 132-182, given what extract_features returned
AfterFeatures(features, pred, ah2, considerations) ==
    IF features.exc # NoExc THEN Raise(features.exc)
    ELSE ScheduleSlots(PredictOptimalSlots(pred), HoursNeeded(ah2), considerations)

GenerateDynamicSchedule(goals, ah2, considerations, env) ==
    AfterFeatures(ExtractFeatures(goals, ah2, considerations, env), env.pred, ah2,
                  considerations)

(***************************************************************************)
(* SimpleScheduler._format_output                                          *)
(***************************************************************************)
\* the length of the whitespace run that ends at index i of s (i may be 0)
RECURSIVE SpacesBefore(_, _)
SpacesBefore(s, i) == IF i >= 1 /\ IsSpace(s[i]) THEN 1 + SpacesBefore(s, i - 1) ELSE 0
\* the length of the whitespace run that starts at index i of s
RECURSIVE SpacesFrom(_, _)
SpacesFrom(s, i) == IF i <= Len(s) /\ IsSpace(s[i]) THEN 1 + SpacesFrom(s, i + 1) ELSE 0

\* re.sub(r'\s*[\[\(][^)\]]*[\]\)]\s*', '', s): every bracketed or parenthesised
\* annotation removed with the whitespace around it, leftmost match first
RECURSIVE StripAnnotations(_)
StripAnnotations(s) ==
    LET o == FirstIn(s, {91 (* '[' *), 40 (* '(' *)})
        rest == SubSeq(s, o + 1, Len(s))
        c == IF o = 0 THEN 0 ELSE FirstIn(rest, {41 (* ')' *), 93 (* ']' *)})
    IN IF o = 0 \/ c = 0 THEN s
       ELSE LET from == o - SpacesBefore(s, o - 1)
                close == o + c
                to == close + SpacesFrom(s, close + 1)
            IN SubSeq(s, 1, from - 1) \o StripAnnotations(SubSeq(s, to + 1, Len(s)))

\* lines 266-270: int(time_str.split(':')[0]), 9 on ValueError
BlockHour(parsed) == IF parsed.exc # NoExc THEN 9 ELSE parsed.val

\* lines 266-274, given time_str and task
RenderBlock(time_str, task, time_slots) ==
    time_str \o <<32, 45, 32>> (* " - " *) \o task \o <<32, 40>> (* " (" *)
    \o Capitalize(GetPriority(BlockHour(ParseInt(SplitOn(time_str, 58 (* ':' *))[1])),
                              Some(time_slots)))
    \o <<41>> (* ")" *)

\* process_time_block (lines 257-277); with well-formed time_slots nothing in
\* its try block raises, the ValueError of int() being handled on line 268
ProcessTimeBlock(line, time_slots) ==
    LET parts == SplitFirst(line, 58 (* ':' *))
    IN IF Len(parts) < 2 THEN line
       ELSE RenderBlock(FormatTime(parts[1]), Strip(StripAnnotations(parts[2])),
                        time_slots)

Days == <<<<77, 79, 78, 68, 65, 89>> (* "MONDAY" *), <<84, 85, 69, 83, 68, 65, 89>> (* "TUESDAY" *), <<87, 69, 68, 78, 69, 83, 68, 65, 89>> (* "WEDNESDAY" *), <<84, 72, 85, 82, 83, 68, 65, 89>> (* "THURSDAY" *), <<70, 82, 73, 68, 65, 89>> (* "FRIDAY" *),
          <<83, 65, 84, 85, 82, 68, 65, 89>> (* "SATURDAY" *), <<83, 85, 78, 68, 65, 89>> (* "SUNDAY" *)>>

\* lines 300-301: the line is appended only when process_time_block changed it
AppendIfChanged(formatted_line, line) ==
    IF formatted_line # line THEN <<formatted_line>> ELSE <<>>

\* the entries one stripped, non-empty line adds to formatted_lines (lines 285-306)
LineEntries(line, time_slots) ==
    IF line = <<>> \/ Contains(line, <<91, 67, 111, 110, 116, 105, 110, 117, 101>> (* "[Continue" *)) \/ Contains(Lower(line), <<114, 101, 115, 116>> (* "rest" *))
    THEN <<>>
    ELSE IF Contains(Upper(line), <<81, 85, 65, 82, 84, 69, 82>> (* "QUARTER" *))
    THEN << <<>>, line >>
    ELSE IF Contains(Upper(line), <<87, 69, 69, 75>> (* "WEEK" *)) /\ Contains(line, <<45>> (* "-" *))
    THEN << <<>>, Strip(Remove(line, <<42, 42>> (* "**" *))) >>
    ELSE IF \E d \in 1..Len(Days) : Contains(Upper(line), Days[d])
    THEN << <<>>, Capitalize(Strip(SplitOn(line, 58 (* ':' *))[1])) >>
    ELSE IF Contains(line, <<58>> (* ":" *))
    THEN AppendIfChanged(ProcessTimeBlock(line, time_slots), line)
    ELSE IF ~\E i \in 1..Len(line) : line[i] \in {42 (* '*' *), 91 (* '[' *), 93 (* ']' *)}
    THEN <<line>>
    ELSE <<>>

RECURSIVE FormattedLines(_, _)
FormattedLines(raw_lines, time_slots) ==
    IF raw_lines = <<>> THEN <<>>
    ELSE LineEntries(Strip(Head(raw_lines)), time_slots)
         \o FormattedLines(Tail(raw_lines), time_slots)

\* str(available_hours) for the float available_hours
FloatText(ah2) ==
    (IF ah2 < 0 THEN <<45>> (* "-" *) ELSE <<>>) \o Digits(Abs(ah2) \div 2)
    \o (IF Abs(ah2) % 2 = 0 THEN <<46, 48>> (* ".0" *) ELSE <<46, 53>> (* ".5" *))

Header(duration, goals, ah2, considerations) ==
    JoinLines(<<<<83, 99, 104, 101, 100, 117, 108, 101, 32, 79, 118, 101, 114, 118, 105, 101, 119>> (* "Schedule Overview" *),
                <<45, 45, 45, 45, 45, 45, 45, 45, 45, 45, 45, 45, 45, 45, 45, 45>> (* "----------------" *),
                <<68, 117, 114, 97, 116, 105, 111, 110, 58, 32>> (* "Duration: " *) \o duration,
                <<71, 111, 97, 108, 115, 58, 32>> (* "Goals: " *) \o goals,
                <<72, 111, 117, 114, 115, 32, 112, 101, 114, 32, 100, 97, 121, 58, 32>> (* "Hours per day: " *) \o FloatText(ah2),
                <<78, 111, 116, 101, 115, 58, 32>> (* "Notes: " *) \o considerations,
                <<45, 45, 45, 45, 45, 45, 45, 45, 45, 45, 45, 45, 45, 45, 45, 45, 10>> (* "----------------\n" *)>>)

FormatOutput(schedule, duration, goals, ah2, considerations, time_slots) ==
    Header(duration, goals, ah2, considerations)
    \o JoinLines(FormattedLines(SplitOn(Strip(schedule), 10 (* '\n' *)), time_slots))

(***************************************************************************)
(* SimpleScheduler.generate_schedule                                       *)
(*                                                                         *)
(* env.prompt_raises: the prompt method raises.  env.draft: what           *)
(* model.generate_content and response.text do, raise with a message or    *)
(* give the draft text.                                                    *)
(***************************************************************************)
\* str(e) of the exceptions raised inside the scheduler
Message(exc) ==
    IF exc = "ZeroDivisionError" THEN <<100, 105, 118, 105, 115, 105, 111, 110, 32, 98, 121, 32, 122, 101, 114, 111>> (* "division by zero" *)
    ELSE IF exc = "ValueError" THEN <<110, 101, 103, 97, 116, 105, 118, 101, 32, 100, 105, 109, 101, 110, 115, 105, 111, 110, 115, 32, 97, 114, 101, 32, 110, 111, 116, 32, 97, 108, 108, 111, 119, 101, 100>> (* "negative dimensions are not allowed" *)
    ELSE IF exc = "IndexError" THEN <<98, 111, 111, 108, 101, 97, 110, 32, 105, 110, 100, 101, 120, 32, 100, 105, 100, 32, 110, 111, 116, 32, 109, 97, 116, 99, 104>> (* "boolean index did not match" *)
    ELSE <<112, 114, 111, 109, 112, 116, 32, 102, 97, 105, 108, 101, 100>> (* "prompt failed" *)

\* the result of a run: exc and message of the exception raised (NoExc for a
\* return), val the text returned, cause the exception the raised one wraps,
\* and what the run did: strategy chosen, drafter_called, slots handed on
Outcome(exc, message, cause, val, strategy, drafter_called, slots) ==
    [exc |-> exc, message |-> message, cause |-> cause, val |-> val,
     strategy |-> strategy, drafter_called |-> drafter_called, time_slots |-> slots]

\* next((key for key in prompt_methods if key in duration_lower), 'week')
Strategy(duration) ==
    LET duration_lower == Lower(duration)
    IN IF Contains(duration_lower, <<121, 101, 97, 114>> (* "year" *)) THEN "yearly"
       ELSE IF Contains(duration_lower, <<109, 111, 110, 116, 104>> (* "month" *)) THEN "monthly"
       ELSE "weekly"

\* an except clause that logs and goes on, raising nothing
WrapSwallow(cause, message) ==
    [exc |-> NoExc, cause |-> NoExc, message |-> <<>>]

\* the except clause of lines 202-204
Wrap(cause, message) ==
    [exc |-> "ValueError", cause |-> cause,
     message |-> <<70, 97, 105, 108, 101, 100, 32, 116, 111, 32, 103, 101, 110, 101, 114, 97, 116, 101, 32, 115, 99, 104, 101, 100, 117, 108, 101, 58, 32>> (* "Failed to generate schedule: " *) \o message]

\* lines 198-204, given the slots of line 185
DraftAndFormat(slots, strategy, duration, goals, ah2, considerations, env) ==
    IF env.prompt_raises
    THEN LET w == Wrap("PromptError", Message("PromptError"))
         IN Outcome(w.exc, w.message, w.cause, <<>>, strategy, FALSE, slots)
    ELSE IF env.draft.raises
    THEN LET w == Wrap("DrafterError", env.draft.message)
         IN Outcome(w.exc, w.message, w.cause, <<>>, strategy, TRUE, slots)
    ELSE Outcome(NoExc, <<>>, NoExc,
                 FormatOutput(env.draft.text, duration, goals, ah2, considerations, slots),
                 strategy, TRUE, slots)

\* lines 186-204, given what generate_dynamic_schedule did on line 185: its
\* exception is raised as it is, line 185 being outside the try block
AfterSlots(time_slots, duration, goals, ah2, considerations, env) ==
    IF time_slots.exc # NoExc
    THEN Outcome(time_slots.exc, Message(time_slots.exc), NoExc, <<>>, "none", FALSE, <<>>)
    ELSE DraftAndFormat(time_slots.val.slots, Strategy(duration), duration, goals, ah2,
                        considerations, env)

GenerateSchedule(duration, goals, ah2, considerations, env) ==
    AfterSlots(GenerateDynamicSchedule(goals, ah2, considerations, env),
               duration, goals, ah2, considerations, env)

(***************************************************************************)
(* create_schedule (src/app.py)                                            *)
(***************************************************************************)
\* lines 19-22: the schedule, or "Error: " and str(e)
Reply(r) ==
    [val |-> IF r.exc = NoExc THEN r.val ELSE <<69, 114, 114, 111, 114, 58, 32>> (* "Error: " *) \o r.message,
     scheduler_run |-> TRUE, drafter_called |-> r.drafter_called]

CreateSchedule(duration, goals, ah2, considerations, env) ==
    IF duration = <<>> \/ goals = <<>> \/ considerations = <<>>
    THEN [val |-> <<69, 114, 114, 111, 114, 58, 32, 80, 108, 101, 97, 115, 101, 32, 102, 105, 108, 108, 32, 105, 110, 32, 97, 108, 108, 32, 102, 105, 101, 108, 100, 115>> (* "Error: Please fill in all fields" *), scheduler_run |-> FALSE,
          drafter_called |-> FALSE]
    ELSE Reply(GenerateSchedule(duration, goals, ah2, considerations, env))

(***************************************************************************)
(* Bounds and the inputs drawn within them                                 *)
(***************************************************************************)
\* considerations texts hold at most MaxWords vocabulary words
MaxWords == 3
\* available_hours ranges over -MaxNegHalfHours/2 .. MaxHalfHours/2 in steps of 0.5
MaxHalfHours == 48
MaxNegHalfHours == 4
\* time texts "<h><marker>" are built for h in 0..MaxHourText
MaxHourText == 13
\* a draft holds at most MaxLines lines
MaxLines == 2
\* a slot sequence handed to _get_priority holds at most MaxSlots slots
MaxSlots == 2

RECURSIVE JoinWords(_)
JoinWords(ws) ==
    IF ws = <<>> THEN <<>>
    ELSE IF Len(ws) = 1 THEN ws[1]
    ELSE ws[1] \o <<32>> (* " " *) \o JoinWords(Tail(ws))

SeqsUpTo(S, n) == UNION {[1..k -> S] : k \in 0..n}

\* words with a morning keyword ("team" holds "am"), an afternoon keyword, and
\* an evening keyword in capitals
Vocabulary == {<<109, 111, 114, 110, 105, 110, 103>> (* "morning" *), <<116, 101, 97, 109>> (* "team" *), <<108, 117, 110, 99, 104>> (* "lunch" *), <<51, 112, 109>> (* "3pm" *), <<76, 97, 116, 101>> (* "Late" *)}

\* the texts of up to MaxWords vocabulary words, and texts whose keyword counts
\* (morning, afternoon, evening) are (1,0,2), (0,1,3), (2,1,0) and (1,3,2)
ConsiderationTexts ==
    {JoinWords(ws) : ws \in SeqsUpTo(Vocabulary, MaxWords)}
    \cup {<<101, 97, 114, 108, 121, 44, 32, 76, 97, 116, 101, 32, 101, 118, 101, 110, 105, 110, 103, 115>> (* "early, Late evenings" *), <<108, 117, 110, 99, 104, 44, 32, 108, 97, 116, 101, 32, 101, 118, 101, 110, 105, 110, 103, 32, 111, 114, 32, 110, 105, 103, 104, 116>> (* "lunch, late evening or night" *),
          <<101, 97, 114, 108, 121, 32, 109, 111, 114, 110, 105, 110, 103, 32, 108, 117, 110, 99, 104>> (* "early morning lunch" *), <<56, 97, 109, 59, 32, 97, 102, 116, 101, 114, 110, 111, 111, 110, 32, 108, 117, 110, 99, 104, 32, 50, 112, 109, 59, 32, 108, 97, 116, 101, 32, 97, 116, 32, 110, 105, 103, 104, 116>> (* "8am; afternoon lunch 2pm; late at night" *)}

\* keyword counts: none, (2,0,0), (0,1,0), (0,0,2), (1,2,0)
PreferenceSamples == {<<109, 101, 101, 116, 105, 110, 103>> (* "meeting" *), <<101, 97, 114, 108, 121, 32, 109, 111, 114, 110, 105, 110, 103>> (* "early morning" *), <<108, 117, 110, 99, 104>> (* "lunch" *), <<76, 97, 116, 101, 32, 110, 105, 103, 104, 116>> (* "Late night" *),
                      <<109, 111, 114, 110, 105, 110, 103, 32, 108, 117, 110, 99, 104, 32, 51, 112, 109>> (* "morning lunch 3pm" *)}

GoalTexts == {<<100, 101, 115, 105, 103, 110, 32, 97, 32, 110, 101, 119, 32, 111, 110, 98, 111, 97, 114, 100, 105, 110, 103, 32, 102, 108, 111, 119>> (* "design a new onboarding flow" *), <<112, 108, 97, 110, 9, 112, 108, 97, 110, 32, 115, 116, 117, 100, 121>> (* "plan\tplan study" *), <<32, 32>> (* "  " *),
              <<160, 11>> (* "\xa0\x0b" *), <<913, 931, 32, 945, 962, 32, 112, 108, 97, 110, 160, 115, 116, 117, 100, 121>> (* "\u0391\u03a3 \u03b1\u03c2 plan\xa0study" *)}
RunGoalTexts == {<<112, 108, 97, 110, 32, 112, 108, 97, 110, 32, 115, 116, 117, 100, 121>> (* "plan plan study" *), <<32, 160>> (* " \xa0" *)}

HalfHourSamples == {-2, -1, 0, 3, 17, 26}

DurationTexts == {<<49, 32, 119, 101, 101, 107>> (* "1 week" *), <<50, 32, 77, 111, 110, 116, 104, 115>> (* "2 Months" *), <<49, 32, 121, 101, 97, 114>> (* "1 year" *)}

\* predict_proba outcomes: a failure, no row, the one row per sample of a
\* binary classifier, and 24-row matrices of one or two columns
\* a row of a binary classifier whose second column is p100 hundredths
ProbaRow(p100) == <<Float(100 - p100, 100), Float(p100, 100)>>
\* 24 such rows, row h for hour h - 1: p1 at hour h1, p2 at hour h2 and 0.1 at
\* the other hours
PeakRows(h1, p1, h2, p2) ==
    [h \in 1..24 |-> ProbaRow(IF h = h1 + 1 THEN p1 ELSE IF h = h2 + 1 THEN p2 ELSE 10)]
\* the outcomes taken: a failure; no row; one row; the same 0.5 at every hour;
\* two columns with 0.0 second; one column; 0.69 at hour 5 and 0.46 at hour 9,
\* whose adjusted products differ in the last bit; 0.9 at hour 12 and 0.6 at
\* hour 13, whose normalised 0.6 / 1.5 falls just below 0.4
Predictions ==
    {[raises |-> TRUE, error |-> "NotFittedError", rows |-> <<>>],
     [raises |-> FALSE, error |-> NoExc, rows |-> <<>>],
     [raises |-> FALSE, error |-> NoExc, rows |-> <<<<Float(3, 10), Float(7, 10)>>>>],
     [raises |-> FALSE, error |-> NoExc, rows |-> [h \in 1..24 |-> ProbaRow(50)]],
     [raises |-> FALSE, error |-> NoExc, rows |-> [h \in 1..24 |-> <<FOne, FZero>>]],
     [raises |-> FALSE, error |-> NoExc, rows |-> [h \in 1..24 |-> <<Float(h % 3, 2)>>]],
     [raises |-> FALSE, error |-> NoExc, rows |-> PeakRows(5, 69, 9, 46)],
     [raises |-> FALSE, error |-> NoExc, rows |-> PeakRows(12, 90, 13, 60)]}

NoPrediction == [raises |-> TRUE, error |-> "NotFittedError", rows |-> <<>>]

\* what the loaded artifacts can do on a call: a missing artifact is never called
ArtifactEnvs ==
    {[pred |-> p, reindex_ok |-> r, transform_ok |-> t] :
        p \in IF rf_model THEN Predictions ELSE {NoPrediction},
        r \in IF feature_names THEN BOOLEAN ELSE {TRUE},
        t \in IF scaler THEN BOOLEAN ELSE {TRUE}}

\* the predictions whole runs are made with: a failure, and the 24-row matrices
PredictionEnvs ==
    {[pred |-> p, reindex_ok |-> TRUE, transform_ok |-> TRUE] :
        p \in IF rf_model THEN {q \in Predictions : q.raises \/ Len(q.rows) = 24}
              ELSE {NoPrediction}}

LineVocabulary == {<<103, 97, 114, 98, 97, 103, 101, 58, 58, 58, 58>> (* "garbage::::" *), <<50, 112, 109, 58, 32, 68, 101, 115, 105, 103, 110, 32, 91, 100, 101, 101, 112, 32, 119, 111, 114, 107, 93>> (* "2pm: Design [deep work]" *), <<77, 111, 110, 100, 97, 121, 58, 32, 102, 111, 99, 117, 115>> (* "Monday: focus" *),
                   <<57, 58, 48, 48, 32, 45, 32, 115, 121, 110, 99, 32, 40, 100, 97, 105, 108, 121, 41>> (* "9:00 - sync (daily)" *), <<42, 42, 87, 69, 69, 75, 32, 49, 32, 45, 32, 50, 42, 42>> (* "**WEEK 1 - 2**" *), <<81, 49, 32, 113, 117, 97, 114, 116, 101, 114>> (* "Q1 quarter" *),
                   <<116, 97, 107, 101, 32, 97, 32, 114, 101, 115, 116>> (* "take a rest" *), <<42, 32, 110, 111, 116, 101>> (* "* note" *), <<112, 108, 97, 105, 110, 32, 119, 111, 114, 100, 115>> (* "plain words" *), <<97, 109, 58, 32, 115, 116, 114, 101, 116, 99, 104>> (* "am: stretch" *),
                   <<50, 49, 58, 32, 119, 105, 110, 100, 32, 100, 111, 119, 110>> (* "21: wind down" *), <<49, 95, 48, 58, 32, 114, 101, 118, 105, 101, 119>> (* "1_0: review" *), <<50, 49, 9, 58, 32, 116, 101, 97>> (* "21\t: tea" *),
                   <<57, 97, 109, 58, 32, 114, 117, 110, 9, 40, 102, 97, 115, 116, 41, 13>> (* "9am: run\t(fast)\r" *), <<57, 104, 32, 99, 97, 102, 233, 58, 32, 114, 117, 110, 11, 40, 102, 97, 115, 116, 41, 160>> (* "9h caf\xe9: run\x0b(fast)\xa0" *),
                   <<1635, 112, 109, 58, 32, 83, 116, 114, 97, 223, 101>> (* "\u0663pm: Stra\xdfe" *), <<11>> (* "\x0b" *)}

DraftTexts == {JoinLines(ls) : ls \in SeqsUpTo(LineVocabulary, MaxLines)}

DraftSamples ==
    {[raises |-> TRUE, message |-> <<113, 117, 111, 116, 97, 32, 101, 120, 99, 101, 101, 100, 101, 100>> (* "quota exceeded" *), text |-> <<>>],
     [raises |-> FALSE, message |-> <<>>, text |-> <<77, 111, 110, 100, 97, 121, 58, 10, 50, 112, 109, 58, 32, 68, 101, 115, 105, 103, 110, 32, 91, 100, 101, 101, 112, 32, 119, 111, 114, 107, 93, 10, 103, 97, 114, 98, 97, 103, 101, 58, 58, 58, 58>> (* "Monday:\n2pm: Design [deep work]\ngarbage::::" *)],
     [raises |-> FALSE, message |-> <<>>, text |-> <<>>]}

RunEnvs ==
    {[pred |-> e.pred, reindex_ok |-> TRUE, transform_ok |-> TRUE,
      prompt_raises |-> pr, draft |-> d] :
        e \in {x \in PredictionEnvs : x.pred.raises \/ x.pred.rows[1] = ProbaRow(50)},
        pr \in BOOLEAN, d \in DraftSamples}

TimeMarkers == {<<>>, <<97, 109>> (* "am" *), <<112, 109>> (* "pm" *), <<65, 77>> (* "AM" *), <<32, 80, 77>> (* " PM" *)}
TimeMinutes == {<<>>, <<58, 51, 48>> (* ":30" *)}
OddTimeTexts == {<<103, 97, 114, 98, 97, 103, 101>> (* "garbage" *), <<97, 109>> (* "am" *), <<110, 111, 111, 110>> (* "noon" *), <<57, 58, 48, 48>> (* "9:00" *), <<57, 32, 58, 48, 48>> (* "9 :00" *), <<112, 109, 32, 51>> (* "pm 3" *), <<>>,
                 <<57, 104, 32, 99, 97, 102, 233>> (* "9h caf\xe9" *), <<1635, 112, 109>> (* "\u0663pm" *), <<223, 32, 49, 95, 50, 32, 181>> (* "\xdf 1_2 \xb5" *)}
TimeText(h, minutes, marker) == Digits(h) \o minutes \o marker
TimeTexts ==
    {TimeText(h, mi, ma) : h \in 0..MaxHourText, mi \in TimeMinutes, ma \in TimeMarkers}
    \cup OddTimeTexts

SlotSequences(hour) ==
    SeqsUpTo({(hour + k) % 24 : k \in 0..1} \X {Float(3, 10), Float(4, 10), Float(7, 10)},
             MaxSlots)

SlotSamples == {<<>>, <<<<9, Float(9, 10)>>, <<10, Float(1, 10)>>, <<21, Float(7, 10)>>>>}

(***************************************************************************)
(* The state machine: the artifacts loaded by __init__, and the one call    *)
(* made on the scheduler since it was built                                *)
(***************************************************************************)
\* __init__ loads rf_model, scaler, feature_names in this order inside one try:
\* the first load that fails leaves the later ones None
Init ==
    /\ \E loaded \in 0..3 :
          /\ rf_model = (loaded >= 1)
          /\ scaler = (loaded >= 2)
          /\ feature_names = (loaded >= 3)
    /\ op = "__init__"
    /\ args = <<>>
    /\ ret = <<>>

FormatTimeCall ==
    /\ op = "__init__"
    /\ \E t \in TimeTexts :
        /\ op' = "_format_time"
        /\ args' = [time_str |-> t]
        /\ ret' = FormatTime(t)
        /\ UNCHANGED <<rf_model, scaler, feature_names>>

GetPriorityCall ==
    /\ op = "__init__"
    /\ \E hour \in 0..23 :
        \E slots \in {Nothing} \cup {Some(s) : s \in SlotSequences(hour)} :
            /\ op' = "_get_priority"
            /\ args' = [hour |-> hour, slots |-> slots]
            /\ ret' = GetPriority(hour, slots)
            /\ UNCHANGED <<rf_model, scaler, feature_names>>

ExtractFeaturesCall ==
    /\ op = "__init__"
    /\ \E goals \in GoalTexts, ah2 \in HalfHourSamples,
          c \in {<<109, 101, 101, 116, 105, 110, 103>> (* "meeting" *), <<101, 97, 114, 108, 121, 32, 109, 111, 114, 110, 105, 110, 103>> (* "early morning" *)}, env \in ArtifactEnvs :
        /\ op' = "extract_features"
        /\ args' = [goals |-> goals, ah2 |-> ah2, considerations |-> c, env |-> env]
        /\ ret' = ExtractFeatures(goals, ah2, c, env)
        /\ UNCHANGED <<rf_model, scaler, feature_names>>

PredictOptimalSlotsCall ==
    /\ op = "__init__"
    /\ \E pred \in Predictions :
        /\ op' = "predict_optimal_slots"
        /\ args' = [pred |-> pred]
        /\ ret' = PredictOptimalSlots(pred)
        /\ UNCHANGED <<rf_model, scaler, feature_names>>

GenerateDynamicScheduleCall ==
    /\ op = "__init__"
    /\ \E in \in (RunGoalTexts \X ((-MaxNegHalfHours)..MaxHalfHours) \X PreferenceSamples)
               \cup ({<<112, 108, 97, 110, 32, 112, 108, 97, 110, 32, 115, 116, 117, 100, 121>> (* "plan plan study" *)} \X {16} \X ConsiderationTexts),
       env \in PredictionEnvs :
        /\ op' = "generate_dynamic_schedule"
        /\ args' = [goals |-> in[1], ah2 |-> in[2], considerations |-> in[3], env |-> env]
        /\ ret' = GenerateDynamicSchedule(in[1], in[2], in[3], env)
        /\ UNCHANGED <<rf_model, scaler, feature_names>>

FormatOutputCall ==
    /\ op = "__init__"
    /\ \E schedule \in DraftTexts, slots \in SlotSamples :
        /\ op' = "_format_output"
        /\ args' = [schedule |-> schedule, duration |-> <<49, 32, 119, 101, 101, 107>> (* "1 week" *), goals |-> <<112, 108, 97, 110>> (* "plan" *),
                    ah2 |-> 16, considerations |-> <<110, 111, 110, 101>> (* "none" *),
                    time_slots |-> slots]
        /\ ret' = FormatOutput(schedule, <<49, 32, 119, 101, 101, 107>> (* "1 week" *), <<112, 108, 97, 110>> (* "plan" *), 16,
                               <<110, 111, 110, 101>> (* "none" *), slots)
        /\ UNCHANGED <<rf_model, scaler, feature_names>>

GenerateScheduleCall ==
    /\ op = "__init__"
    /\ \E duration \in DurationTexts, goals \in RunGoalTexts, ah2 \in HalfHourSamples,
          c \in {<<101, 97, 114, 108, 121, 32, 109, 111, 114, 110, 105, 110, 103>> (* "early morning" *)}, env \in RunEnvs :
        /\ op' = "generate_schedule"
        /\ args' = [duration |-> duration, goals |-> goals, ah2 |-> ah2,
                    considerations |-> c, env |-> env]
        /\ ret' = GenerateSchedule(duration, goals, ah2, c, env)
        /\ UNCHANGED <<rf_model, scaler, feature_names>>

CreateScheduleCall ==
    /\ op = "__init__"
    /\ \E duration \in {<<>>, <<49, 32, 119, 101, 101, 107>> (* "1 week" *)}, goals \in RunGoalTexts \cup {<<>>},
          ah2 \in {-2, 0, 17}, c \in {<<>>, <<101, 97, 114, 108, 121, 32, 109, 111, 114, 110, 105, 110, 103>> (* "early morning" *)}, env \in RunEnvs :
        /\ op' = "create_schedule"
        /\ args' = [duration |-> duration, goals |-> goals, ah2 |-> ah2,
                    considerations |-> c, env |-> env]
        /\ ret' = CreateSchedule(duration, goals, ah2, c, env)
        /\ UNCHANGED <<rf_model, scaler, feature_names>>

\* create_schedule builds a new SimpleScheduler for every request (app.py line
\* 11): the artifacts are loaded again, as far as they can be loaded then, and
\* the last call is forgotten
Construct ==
    /\ op # "__init__"
    /\ op' = "__init__"
    /\ args' = <<>>
    /\ ret' = <<>>
    /\ \E loaded \in 0..3 :
          /\ rf_model' = (loaded >= 1)
          /\ scaler' = (loaded >= 2)
          /\ feature_names' = (loaded >= 3)

Next ==
    \/ Construct
    \/ FormatTimeCall
    \/ GetPriorityCall
    \/ ExtractFeaturesCall
    \/ PredictOptimalSlotsCall
    \/ GenerateDynamicScheduleCall
    \/ FormatOutputCall
    \/ GenerateScheduleCall
    \/ CreateScheduleCall

Spec == Init /\ [][Next]_vars

(***************************************************************************)
(* Properties                                                              *)
(***************************************************************************)
Tokenless(goals) == SplitWs(Lower(goals)) = <<>>
IsPrefix(p, s) == Len(p) <= Len(s) /\ SubSeq(s, 1, Len(p)) = p
Returned(name) == op = name /\ ret.exc = NoExc

\* C1 as stated: for available_hours in (0, 24], hours_needed is
\* min(available_hours, 12) itself; no more than hours_needed slots are
\* returned, and exactly hours_needed consecutive hours on the rule-based path.
C1_HoursNeededIsMinOfHours ==
    (Returned("generate_dynamic_schedule") /\ args.ah2 \in 1..48) =>
        /\ 2 * ret.val.hours_needed = Min(args.ah2, 24)
        /\ Len(ret.val.slots) <= ret.val.hours_needed
        /\ ret.val.path = "rule-based" => Len(ret.val.slots) = ret.val.hours_needed

\* C1 amended: for every available_hours > 0, whenever a scoring path is
\* reached hours_needed is min(floor(available_hours), 12); at most
\* hours_needed slots are returned, so never more than 12 nor more than the
\* hours requested; on the rule-based path exactly hours_needed slots with the
\* hours (start_hour + i) mod 24, i = 0..hours_needed-1.  A scoring path is
\* reached unless the goals hold no token (ZeroDivisionError, see C5).
C1_SlotCount ==
    (op = "generate_dynamic_schedule" /\ args.ah2 >= 1) =>
        IF ret.exc # NoExc
        THEN ret.exc = "ZeroDivisionError" /\ Tokenless(args.goals)
        ELSE LET hn == ret.val.hours_needed
                 slots == ret.val.slots
             IN /\ \/ hn = 12 /\ args.ah2 >= 24
                   \/ hn < 12 /\ 2 * hn <= args.ah2 /\ args.ah2 < 2 * hn + 2
                /\ Len(slots) <= hn
                /\ Len(slots) <= 12
                /\ 2 * Len(slots) <= args.ah2
                /\ ret.val.path = "rule-based" =>
                     /\ Len(slots) = hn
                     /\ \A i \in 1..Len(slots) :
                            slots[i][1] = (StartHour(args.considerations) + (i - 1)) % 24

\* 8.5 hours on the classifier path: 8 slots
C1_Witness ==
    /\ Returned("generate_dynamic_schedule")
    /\ args.ah2 = 17
    /\ ret.val.path = "classifier"
    /\ Len(ret.val.slots) = 8

InBand(hour) == hour \in 9..11 \/ hour \in 14..16

\* C2 as stated: on the rule-based path a slot in 9..11 or 14..16 scores above
\* 0.7, a slot whose hour is outside [7, 20) scores exactly 0.6, every other
\* slot keeps 0.7.
C2_EdgeOutsideSevenToTwenty ==
    (Returned("generate_dynamic_schedule") /\ ret.val.path = "rule-based") =>
        \A i \in 1..Len(ret.val.slots) :
            LET hour == ret.val.slots[i][1]
                score == ret.val.slots[i][2]
            IN /\ InBand(hour) => FLess(BaseScore, score)
               /\ (hour < 7 \/ hour >= 20) => score = EdgeScore
               /\ (~InBand(hour) /\ hour >= 7 /\ hour < 20) => score = BaseScore

\* C2 amended: on the rule-based path a slot in 9..11 or 14..16 scores above
\* 0.7, a slot whose wrapped hour is below 7 or above 20 scores exactly 0.6,
\* and every other slot, hour 20 included, keeps 0.7.
C2_RuleScores ==
    (Returned("generate_dynamic_schedule") /\ ret.val.path = "rule-based") =>
        \A i \in 1..Len(ret.val.slots) :
            LET hour == ret.val.slots[i][1]
                score == ret.val.slots[i][2]
            IN /\ hour \in 0..23
               /\ InBand(hour) => FLess(BaseScore, score)
               /\ (hour < 7 \/ hour > 20) => score = EdgeScore
               /\ (~InBand(hour) /\ hour >= 7 /\ hour <= 20) => score = BaseScore

\* twelve hours from 16:00: hour 20 at 0.7, hour 21 at 0.6, and the wrapped hour 3
C2_Witness ==
    /\ Returned("generate_dynamic_schedule")
    /\ ret.val.path = "rule-based"
    /\ Len(ret.val.slots) = 12
    /\ ret.val.slots[5] = <<20, BaseScore>>
    /\ ret.val.slots[6] = <<21, EdgeScore>>
    /\ ret.val.slots[12] = <<3, EdgeScore>>

InputLines(schedule) == SplitOn(Strip(schedule), 10 (* '\n' *))
OutputLines(text) == SplitOn(text, 10 (* '\n' *))

\* C3: the time-block line "garbage::::", whose time portion cannot be parsed,
\* is in the formatted output exactly as received.
C3_BadLinePassedThrough ==
    (op = "_format_output"
     /\ \E i \in 1..Len(InputLines(args.schedule)) :
            InputLines(args.schedule)[i] = <<103, 97, 114, 98, 97, 103, 101, 58, 58, 58, 58>> (* "garbage::::" *)) =>
        \E j \in 1..Len(OutputLines(ret)) : OutputLines(ret)[j] = <<103, 97, 114, 98, 97, 103, 101, 58, 58, 58, 58>> (* "garbage::::" *)

\* C4: generate_schedule rejects available_hours <= 0: the run ends in an error
\* and the drafting collaborator is not called.
C4_NonPositiveHoursRejected ==
    (op = "generate_schedule" /\ args.ah2 <= 0) =>
        ret.exc # NoExc /\ ~ret.drafter_called

\* C5: goals without a token do not crash extract_features, and task_diversity
\* is 0.
C5_EmptyGoalsDiversityZero ==
    (op = "extract_features" /\ Tokenless(args.goals)) =>
        ret.exc = NoExc /\ ret.val.features.task_diversity = FZero

NoClassifierResult(pred) == ~rf_model \/ pred.raises \/ Len(pred.rows) = 0

\* C6: with the classifier absent, failing or giving no row,
\* predict_optimal_slots returns None and raises nothing, and
\* generate_dynamic_schedule takes the rule-based path; no run fails because
\* of the classifier, the scaler or the feature names: a run fails only on
\* token-less goals or, on the rule-based path, on hours_needed < 0.
C6_ClassifierNeverFails ==
    /\ op = "predict_optimal_slots" =>
          /\ ret.exc = NoExc
          /\ NoClassifierResult(args.pred) => ret.val.none
    /\ op = "extract_features" =>
          (ret.exc # NoExc => ret.exc = "ZeroDivisionError" /\ Tokenless(args.goals))
    /\ op = "generate_dynamic_schedule" =>
          IF ret.exc = NoExc
          THEN NoClassifierResult(args.env.pred) => ret.val.path = "rule-based"
          ELSE \/ ret.exc = "ZeroDivisionError" /\ Tokenless(args.goals)
               \/ ret.exc = "ValueError" /\ args.ah2 <= -2

C6_Witness ==
    /\ Returned("generate_dynamic_schedule")
    /\ rf_model /\ scaler /\ feature_names
    /\ args.env.pred.raises
    /\ ret.val.path = "rule-based"
    /\ Len(ret.val.slots) = 12

FailurePrefix == <<70, 97, 105, 108, 101, 100, 32, 116, 111, 32, 103, 101, 110, 101, 114, 97, 116, 101, 32, 115, 99, 104, 101, 100, 117, 108, 101, 58, 32>> (* "Failed to generate schedule: " *)

\* C7: when the prompt method or the drafting collaborator fails,
\* generate_schedule raises one ValueError "Failed to generate schedule: ..."
\* that carries the original failure and returns no text; a run that returns
\* had no such failure and returns the whole formatted schedule, header first;
\* create_schedule returns that schedule or a text starting with "Error: ".
C7_DraftFailureIsExplicit ==
    /\ op = "generate_schedule" =>
          /\ (ret.strategy # "none" /\ (args.env.prompt_raises \/ args.env.draft.raises)) =>
                /\ ret.exc = "ValueError"
                /\ ret.cause = IF args.env.prompt_raises THEN "PromptError" ELSE "DrafterError"
                /\ IsPrefix(FailurePrefix, ret.message)
                /\ ~args.env.prompt_raises =>
                      ret.message = FailurePrefix \o args.env.draft.message
          /\ ret.exc # NoExc => ret.val = <<>>
          /\ ret.exc = NoExc =>
                /\ ~args.env.prompt_raises /\ ~args.env.draft.raises
                /\ ret.drafter_called
                /\ IsPrefix(Header(args.duration, args.goals, args.ah2, args.considerations),
                            ret.val)
    /\ op = "create_schedule" =>
          /\ IsPrefix(<<69, 114, 114, 111, 114, 58, 32>> (* "Error: " *), ret.val) \/ IsPrefix(<<83, 99, 104, 101, 100, 117, 108, 101, 32, 79, 118, 101, 114, 118, 105, 101, 119, 10>> (* "Schedule Overview\n" *), ret.val)
          /\ (ret.scheduler_run /\ (args.env.prompt_raises \/ args.env.draft.raises)) =>
                IsPrefix(<<69, 114, 114, 111, 114, 58, 32>> (* "Error: " *), ret.val)

C7_Witness ==
    /\ op = "generate_schedule"
    /\ args.env.draft.raises /\ ~args.env.prompt_raises
    /\ ret.drafter_called
    /\ ret.exc = "ValueError"
    /\ ret.cause = "DrafterError"
    /\ ret.message = <<70, 97, 105, 108, 101, 100, 32, 116, 111, 32, 103, 101, 110, 101, 114, 97, 116, 101, 32, 115, 99, 104, 101, 100, 117, 108, 101, 58, 32, 113, 117, 111, 116, 97, 32, 101, 120, 99, 101, 101, 100, 101, 100>> (* "Failed to generate schedule: quota exceeded" *)

PreferenceCount(k, considerations) ==
    Cardinality({w \in 1..Len(TimePreferences[k].keywords) :
                    Contains(Lower(considerations), TimePreferences[k].keywords[w])})

\* C8: on the rule-based path the first slot's hour is that of the category
\* (morning 8, afternoon 12, evening 16) with the most keywords found in the
\* considerations, the first-declared one among equals, and 9 when no keyword
\* is found.
C8_StartHour ==
    (Returned("generate_dynamic_schedule") /\ ret.val.path = "rule-based"
     /\ Len(ret.val.slots) >= 1) =>
        LET c == args.considerations
            start_hour == ret.val.slots[1][1]
        IN IF \A k \in 1..3 : PreferenceCount(k, c) = 0
           THEN start_hour = 9
           ELSE \E k \in 1..3 :
                   /\ start_hour = <<8, 12, 16>>[k]
                   /\ \A j \in 1..3 : PreferenceCount(j, c) <= PreferenceCount(k, c)
                   /\ \A j \in 1..(k - 1) : PreferenceCount(j, c) < PreferenceCount(k, c)

\* "morning lunch 3pm": one morning keyword and two afternoon keywords, the
\* afternoon wins although the morning is scanned first
C8_Witness ==
    /\ Returned("generate_dynamic_schedule")
    /\ ret.val.path = "rule-based"
    /\ args.considerations = <<109, 111, 114, 110, 105, 110, 103, 32, 108, 117, 110, 99, 104, 32, 51, 112, 109>> (* "morning lunch 3pm" *)
    /\ PreferenceCount(1, args.considerations) = 1
    /\ PreferenceCount(2, args.considerations) = 2
    /\ Len(ret.val.slots) = 8
    /\ ret.val.slots[1][1] = 12

MatchingSlots(hour, slots) ==
    IF slots.none THEN <<>> ELSE SelectSeq(slots.v, LAMBDA sl : sl[1] = hour)

\* C9: _get_priority returns HIGH, MEDIUM or LOW; without a slot of exactly
\* that hour (or with None or no slot at all) it is HIGH for 9..11 and 14..16,
\* LOW below 8 and above 20, MEDIUM otherwise; slots of another hour change
\* nothing: the result is that of the slots of this hour alone.
C9_Priority ==
    op = "_get_priority" =>
        /\ ret \in {HIGH, MEDIUM, LOW}
        /\ MatchingSlots(args.hour, args.slots) = <<>> =>
              ret = IF args.hour \in {9, 10, 11, 14, 15, 16} THEN HIGH
                    ELSE IF args.hour \in (0..7) \cup (21..23) THEN LOW
                    ELSE MEDIUM
        /\ ret = GetPriority(args.hour, Some(MatchingSlots(args.hour, args.slots)))

C9_Witness ==
    /\ op = "_get_priority"
    /\ args.hour = 20
    /\ args.slots = Some(<< <<21, Float(3, 10)>> >>)
    /\ ret = MEDIUM

HasMarker(time_str) ==
    LET u == Upper(Remove(time_str, <<32>> (* " " *)))
    IN Contains(u, AM) \/ Contains(u, PM)

\* the 24-hour value of hour h in 1..12 with the marker
Hour24(h, marker) ==
    IF Upper(Remove(marker, <<32>> (* " " *))) = PM THEN (h % 12) + 12 ELSE h % 12

MarkedTimes ==
    \A h \in 1..12, mi \in TimeMinutes, ma \in TimeMarkers \ {<<>>} :
        args.time_str = TimeText(h, mi, ma) =>
            /\ ret = HourText(Hour24(h, ma))
            /\ Hour24(h, ma) \in 0..23
            /\ Len(ret) = 5

\* C10 as stated: a leading hour 1..12 with a marker gives HH:00 on the 24-hour
\* clock, and a text without a marker passes through unchanged.
C10_UnmarkedUnchanged ==
    op = "_format_time" =>
        /\ MarkedTimes
        /\ ~HasMarker(args.time_str) => ret = args.time_str

\* C10 amended: a leading hour 1..12 with a marker gives HH:00 on the 24-hour
\* clock (PM adds 12 unless the hour is 12, 12 AM gives 00, the hour is in
\* 0..23); a text without a marker passes through with its spaces removed and
\* its letters upper-cased, so one with neither, such as "9:00", is unchanged.
C10_TimeNormalised ==
    op = "_format_time" =>
        /\ MarkedTimes
        /\ ~HasMarker(args.time_str) =>
              /\ ret = Upper(Remove(args.time_str, <<32>> (* " " *)))
              /\ (\A i \in 1..Len(args.time_str) :
                      /\ args.time_str[i] # 32 (* ' ' *)
                      /\ UpperChar(args.time_str[i]) = <<args.time_str[i]>>) =>
                    ret = args.time_str

C10_Witness ==
    /\ op = "_format_time"
    /\ args.time_str = <<49, 50, 97, 109>> (* "12am" *)
    /\ ret = <<48, 48, 58, 48, 48>> (* "00:00" *)

====
